---- MODULE Spec2Model ----
(***************************************************************************)
(* Model of src/app.py: the purchase-data dashboard.  The script is a      *)
(* reactive-rerun program: every user interaction re-executes it top to    *)
(* bottom against the retained session state.  Text is modelled as a       *)
(* sequence of one-character strings, so that strip / split / replace /    *)
(* quoting are computed, not assumed.  Korean identifiers are romanised.   *)
(***************************************************************************)
EXTENDS Integers, Sequences, FiniteSets, TLC

(* ------------------------------------------------------------------ *)
(* Bounds of the model                                                 *)
(* ------------------------------------------------------------------ *)
\* longest text drawn as the argument of a text function
MaxLen == 3
\* longest field value a LIKE pattern is matched against
MaxValLen == 3

(* ------------------------------------------------------------------ *)
(* Text primitives (Python str methods used by the script)             *)
(* ------------------------------------------------------------------ *)
QUOTE == "'"
STAR == "*"
PCT == "%"
SPACE == " "
TAB == "\t"
NEWLINE == "\n"
COMMA == ","
SEMI == ";"
UNDERSCORE == "_"

\* characters Python's str.strip() / str.split() treat as whitespace
Whitespace == {SPACE, TAB, NEWLINE}

\* all texts over alphabet A of length at most n
Texts(A, n) == UNION {[1..k -> A] : k \in 0..n}

HasChar(s, c) == \E i \in 1..Len(s) : s[i] = c

RECURSIVE LStrip(_)
LStrip(s) ==
    IF s = <<>> THEN <<>>
    ELSE IF s[1] \in Whitespace THEN LStrip(Tail(s)) ELSE s

RECURSIVE RStrip(_)
RStrip(s) ==
    IF s = <<>> THEN <<>>
    ELSE IF s[Len(s)] \in Whitespace THEN RStrip(SubSeq(s, 1, Len(s) - 1)) ELSE s

\* str.strip()
Strip(s) == RStrip(LStrip(s))

\* str.replace(c, r) for a one-character c and a replacement text r
RECURSIVE Replace(_, _, _)
Replace(s, c, r) ==
    IF s = <<>> THEN <<>>
    ELSE (IF s[1] = c THEN r ELSE <<s[1]>>) \o Replace(Tail(s), c, r)

\* str.split(c): the pieces between occurrences of c, empty pieces included
RECURSIVE SplitAcc(_, _, _)
SplitAcc(s, c, cur) ==
    IF s = <<>> THEN <<cur>>
    ELSE IF s[1] = c THEN <<cur>> \o SplitAcc(Tail(s), c, <<>>)
    ELSE SplitAcc(Tail(s), c, Append(cur, s[1]))

Split(s, c) == SplitAcc(s, c, <<>>)

\* str.split(): the maximal runs of non-whitespace characters
RECURSIVE SplitWsAcc(_, _)
SplitWsAcc(s, cur) ==
    IF s = <<>> THEN (IF cur = <<>> THEN <<>> ELSE <<cur>>)
    ELSE IF s[1] \in Whitespace
         THEN (IF cur = <<>> THEN <<>> ELSE <<cur>>) \o SplitWsAcc(Tail(s), <<>>)
         ELSE SplitWsAcc(Tail(s), Append(cur, s[1]))

SplitWs(s) == SplitWsAcc(s, <<>>)

\* sep.join(parts)
RECURSIVE Join(_, _)
Join(parts, sep) ==
    IF parts = <<>> THEN <<>>
    ELSE IF Len(parts) = 1 THEN parts[1]
    ELSE parts[1] \o sep \o Join(Tail(parts), sep)

\* str.isdigit()
Digits == {"0", "1", "2", "3", "4", "5", "6", "7", "8", "9"}
IsDigit(s) == s # <<>> /\ \A i \in 1..Len(s) : s[i] \in Digits

\* str.lower() on the letters of the model's alphabets
LowerChar(c) == IF c = "A" THEN "a" ELSE IF c = "B" THEN "b" ELSE IF c = "N" THEN "n" ELSE c
Lower(s) == [i \in 1..Len(s) |-> LowerChar(s[i])]

\* sub in s
Contains(s, sub) ==
    \E i \in 0..(Len(s) - Len(sub)) : SubSeq(s, i + 1, i + Len(sub)) = sub

StartsWith(s, pre) == Len(s) >= Len(pre) /\ SubSeq(s, 1, Len(pre)) = pre
EndsWith(s, suf) == Len(s) >= Len(suf) /\ SubSeq(s, Len(s) - Len(suf) + 1, Len(s)) = suf

\* [f(x) for x in xs if keep(x)] helpers
RECURSIVE StripNonBlank(_)
StripNonBlank(parts) ==
    IF parts = <<>> THEN <<>>
    ELSE (IF Strip(parts[1]) # <<>> THEN <<Strip(parts[1])>> ELSE <<>>)
         \o StripNonBlank(Tail(parts))

(* ------------------------------------------------------------------ *)
(* The query engine's reading of what the script writes into SQL text  *)
(* ------------------------------------------------------------------ *)
SyntaxError == <<"<syntax error>">>

\* Reads a comma-separated list of single-quoted SQL string literals, as the
\* engine does for IN ('..','..') and LIKE '..': inside a literal a doubled
\* quote is one quote and a single quote ends the literal.  mode is "start"
\* (a literal must open), "in" (inside a literal) or "after" (a literal has
\* closed: a comma or the end must follow).  The result is the list of
\* literal values, or SyntaxError when the text is not such a list.
RECURSIVE SqlReadAcc(_, _, _, _)
SqlReadAcc(s, mode, cur, acc) ==
    IF mode = "start" THEN
        IF s # <<>> /\ s[1] = QUOTE THEN SqlReadAcc(Tail(s), "in", <<>>, acc)
        ELSE SyntaxError
    ELSE IF mode = "in" THEN
        IF s = <<>> THEN SyntaxError
        ELSE IF s[1] = QUOTE THEN
            IF Len(s) >= 2 /\ s[2] = QUOTE
            THEN SqlReadAcc(SubSeq(s, 3, Len(s)), "in", Append(cur, QUOTE), acc)
            ELSE SqlReadAcc(Tail(s), "after", <<>>, Append(acc, cur))
        ELSE SqlReadAcc(Tail(s), "in", Append(cur, s[1]), acc)
    ELSE \* "after"
        IF s = <<>> THEN acc
        ELSE IF s[1] = COMMA THEN SqlReadAcc(Tail(s), "start", <<>>, acc)
        ELSE SyntaxError

SqlReadStrList(s) == SqlReadAcc(s, "start", <<>>, <<>>)

\* value LIKE pattern: % is any run of characters, _ any one character;
\* the engine's LIKE has no escape character unless ESCAPE is given
RECURSIVE Like(_, _)
Like(v, p) ==
    IF p = <<>> THEN v = <<>>
    ELSE IF p[1] = PCT THEN Like(v, Tail(p)) \/ (v # <<>> /\ Like(Tail(v), p))
    ELSE IF p[1] = UNDERSCORE THEN v # <<>> /\ Like(Tail(v), Tail(p))
    ELSE v # <<>> /\ v[1] = p[1] /\ Like(Tail(v), Tail(p))

\* value ILIKE pattern: LIKE without regard to letter case
ILike(v, p) == Like(Lower(v), Lower(p))

(* ------------------------------------------------------------------ *)
(* sql_list_num, sql_list_str, enhance_pattern                         *)
(* ------------------------------------------------------------------ *)
\* the empty-selection literal of sql_list_num
SENTINEL == -1

\* ",".join(map(str, vals)) if vals else "-1": the IN list for a numeric
\* column, kept as the list of integers the engine reads back from the text
sql_list_num(vals) == IF vals # <<>> THEN vals ELSE <<SENTINEL>>

NoneValue == <<"<None>">>

RECURSIVE SafeVals(_)
SafeVals(vals) ==
    IF vals = <<>> THEN <<>>
    ELSE LET v == vals[1]
             v_str == Strip(v)
             escaped == Replace(v_str, QUOTE, <<QUOTE, QUOTE>>)
         IN (IF v = NoneValue THEN <<>>
             ELSE IF v_str # <<>> THEN << <<QUOTE>> \o escaped \o <<QUOTE>> >>
             ELSE <<>>)
            \o SafeVals(Tail(vals))

sql_list_str(vals) ==
    IF vals = <<>> THEN <<QUOTE, QUOTE>>
    ELSE LET safe_vals == SafeVals(vals)
         IN IF safe_vals # <<>> THEN Join(safe_vals, <<COMMA>>) ELSE <<QUOTE, QUOTE>>

\* a variant that tokenises on any whitespace character, not only on a space
enhance_pattern_anyws(pattern) ==
    LET wrapped ==
            IF ~HasChar(pattern, STAR) THEN
                IF \E i \in 1..Len(pattern) : pattern[i] \in Whitespace
                THEN <<STAR>> \o Join(SplitWs(pattern), <<STAR>>) \o <<STAR>>
                ELSE <<STAR>> \o pattern \o <<STAR>>
            ELSE pattern
    IN Replace(Replace(wrapped, STAR, <<PCT>>), QUOTE, <<QUOTE, QUOTE>>)

enhance_pattern(pattern) ==
    LET wrapped ==
            IF ~HasChar(pattern, STAR) THEN
                IF HasChar(pattern, SPACE)
                THEN <<STAR>> \o Join(SplitWs(pattern), <<STAR>>) \o <<STAR>>
                ELSE <<STAR>> \o pattern \o <<STAR>>
            ELSE pattern
    IN Replace(Replace(wrapped, STAR, <<PCT>>), QUOTE, <<QUOTE, QUOTE>>)

(* ------------------------------------------------------------------ *)
(* Material search: multi-term inputs and their SQL conditions         *)
(* ------------------------------------------------------------------ *)
\* a variant of name_terms that also splits on a tab
name_terms_tab(s) ==
    StripNonBlank(Split(Replace(Replace(Replace(s, NEWLINE, <<COMMA>>), TAB, <<COMMA>>),
                                SEMI, <<COMMA>>), COMMA))

\* [term.strip() for term in s.replace('\n', ',').replace(';', ',').split(',')
\*  if term.strip()]
name_terms(s) ==
    StripNonBlank(Split(Replace(Replace(s, NEWLINE, <<COMMA>>), SEMI, <<COMMA>>), COMMA))

\* the same with .replace('\t', ',') added
code_terms(s) ==
    StripNonBlank(Split(Replace(Replace(Replace(s, NEWLINE, <<COMMA>>), TAB, <<COMMA>>),
                                SEMI, <<COMMA>>), COMMA))

\* One comparison of the WHERE text: column col against the SQL literal lit
\* (written with its quotes), by ILIKE or by =.
\* name_patterns: f"jajaemyeong ILIKE '{enhance_pattern(term)}'"
name_patterns(terms) ==
    [i \in 1..Len(terms) |->
        [op |-> "ILIKE", col |-> "jajaemyeong",
         lit |-> <<QUOTE>> \o enhance_pattern(terms[i]) \o <<QUOTE>>]]

\* code_patterns: CAST(jajae AS VARCHAR) = '{term}' for an all-digit term,
\* CAST(jajae AS VARCHAR) ILIKE '{enhance_pattern(term)}' otherwise
code_patterns(terms) ==
    [i \in 1..Len(terms) |->
        IF IsDigit(terms[i])
        THEN [op |-> "=", col |-> "jajae", lit |-> <<QUOTE>> \o terms[i] \o <<QUOTE>>]
        ELSE [op |-> "ILIKE", col |-> "jajae",
              lit |-> <<QUOTE>> \o enhance_pattern(terms[i]) \o <<QUOTE>>]]

\* material_search_conditions: a list (joined by AND) of groups, each a list
\* of comparisons joined by OR
material_search_conditions(material_name_search, material_code_search) ==
    (IF material_name_search # <<>> /\ Strip(material_name_search) # <<>>
        /\ name_terms(material_name_search) # <<>>
     THEN <<name_patterns(name_terms(material_name_search))>> ELSE <<>>)
    \o
    (IF material_code_search # <<>> /\ Strip(material_code_search) # <<>>
        /\ code_terms(material_code_search) # <<>>
     THEN <<code_patterns(code_terms(material_code_search))>> ELSE <<>>)

\* search_conditions of the search section: the same construction from the
\* text areas' values
search_conditions(material_name_patt, material_code_patt) ==
    (IF material_name_patt # <<>> /\ name_terms(material_name_patt) # <<>>
     THEN <<name_patterns(name_terms(material_name_patt))>> ELSE <<>>)
    \o
    (IF material_code_patt # <<>> /\ code_terms(material_code_patt) # <<>>
     THEN <<code_patterns(code_terms(material_code_patt))>> ELSE <<>>)

\* The engine's evaluation of one comparison on a row's text fields
\* (fields: column name -> text).  A literal that does not read back as
\* exactly one string makes the statement malformed.
CmpWellFormed(c) ==
    LET lits == SqlReadStrList(c.lit) IN lits # SyntaxError /\ Len(lits) = 1

EvalCmp(c, fields) ==
    LET lits == SqlReadStrList(c.lit)
    IN /\ CmpWellFormed(c)
       /\ IF c.op = "=" THEN fields[c.col] = lits[1] ELSE ILike(fields[c.col], lits[1])

\* (c1 OR c2 ...) AND (d1 OR d2 ...)
EvalConditions(conds, fields) ==
    \A g \in 1..Len(conds) : \E k \in 1..Len(conds[g]) : EvalCmp(conds[g][k], fields)

(* ------------------------------------------------------------------ *)
(* Calls of the text functions on drawn arguments                      *)
(* ------------------------------------------------------------------ *)
VARIABLES call

\* alphabets the arguments are drawn from
StrAlphabet == {"a", QUOTE, SPACE, COMMA}
PatAlphabet == {"a", "A", STAR, SPACE, TAB, QUOTE, UNDERSCORE}
SearchAlphabet == {"a", "1", COMMA, SEMI, NEWLINE, TAB, SPACE}
\* field values the built patterns are matched against
FieldValues == Texts({"a", "A", "1"}, MaxValLen)
\* values that accompany the drawn one (the rest of a list, the other input)
OtherTexts == {<<>>, <<"a">>, <<"1", TAB, "a">>, <<"a", QUOTE>>}

Input(t) == [op |-> "input", args |-> <<t>>, res |-> <<>>]


(* ------------------------------------------------------------------ *)
(* Tables: cells, columns, calendar                                    *)
(* ------------------------------------------------------------------ *)
\* A cell is NaN/NaT/NULL, a number, a text or a date.  A date is kept as its
\* day count from 1899-12-30 (the spreadsheet serial).
NA == [t |-> "na", n |-> 0, s |-> <<>>]
Num(i) == [t |-> "num", n |-> i, s |-> <<>>]
Str(x) == [t |-> "str", n |-> 0, s |-> x]
Date(d) == [t |-> "date", n |-> d, s |-> <<>>]

\* Column names, one token per syllable
col_magamwol == <<"ma", "gam", "wol">>
col_yeondo == <<"yeon", "do">>
col_yeonwol == <<"yeon", "wol">>
col_peulraenteu == <<"peul", "raen", "teu">>
col_gumaegeurup == <<"gu", "mae", "geu", "rup">>
col_gonggeupeopchemyeong == <<"gong", "geup", "eop", "che", "myeong">>
col_gonggeupeopchekodeu == <<"gong", "geup", "eop", "che", "ko", "deu">>
col_eopchepyosi == <<"eop", "che", "pyo", "si">>
col_songjanggeumaek == <<"song", "jang", "geum", "aek">>
col_songjangsuryang == <<"song", "jang", "su", "ryang">>
col_danga == <<"dan", "ga">>
col_jajae == <<"ja", "jae">>
col_jajaemyeong == <<"ja", "jae", "myeong">>
col_pateu == <<"pa", "teu">>
col_kategori == <<"ka", "te", "go", "ri", "(", "choe", "jong", ")">>
col_kpi == <<"K", "P", "I", "yong", "ka", "te", "go", "ri">>

HasCol(df, c) == \E i \in 1..Len(df.columns) : df.columns[i] = c
ColIndex(df, c) == CHOOSE i \in 1..Len(df.columns) :
                      df.columns[i] = c /\ \A j \in 1..(i - 1) : df.columns[j] # c
Cell(df, r, c) == df.rows[r][ColIndex(df, c)]
NRows(df) == Len(df.rows)

\* df[c] = values: replaces the column when it exists, appends it otherwise
SetCol(df, c, values) ==
    IF HasCol(df, c)
    THEN [df EXCEPT !.rows = [r \in 1..Len(df.rows) |->
                                 [df.rows[r] EXCEPT ![ColIndex(df, c)] = values[r]]]]
    ELSE [columns |-> Append(df.columns, c),
          rows |-> [r \in 1..Len(df.rows) |-> Append(df.rows[r], values[r])]]

\* Proleptic Gregorian calendar, day 0 = 1970-01-01
DaysFromCivil(y0, m, d) ==
    LET y == IF m <= 2 THEN y0 - 1 ELSE y0
        era == y \div 400
        yoe == y - era * 400
        mp == IF m > 2 THEN m - 3 ELSE m + 9
        doy == (153 * mp + 2) \div 5 + d - 1
        doe == yoe * 365 + yoe \div 4 - yoe \div 100 + doy
    IN era * 146097 + doe - 719468

CivilFromDays(z0) ==
    LET z == z0 + 719468
        era == z \div 146097
        doe == z - era * 146097
        yoe == (doe - doe \div 1460 + doe \div 36524 - doe \div 146096) \div 365
        doy == doe - (365 * yoe + yoe \div 4 - yoe \div 100)
        mp == (5 * doy + 2) \div 153
        d == doy - (153 * mp + 2) \div 5 + 1
        m == IF mp < 10 THEN mp + 3 ELSE mp - 9
        y == yoe + era * 400 + (IF m <= 2 THEN 1 ELSE 0)
    IN [y |-> y, m |-> m, d |-> d]

\* origin="1899-12-30": the origin's own day count from 1970-01-01
ORIGIN == DaysFromCivil(1899, 12, 30)

\* the calendar date of a serial (days after the origin)
SerialToCivil(n) == CivilFromDays(ORIGIN + n)
CivilToSerial(y, m, d) == DaysFromCivil(y, m, d) - ORIGIN

YearOf(cell) == SerialToCivil(cell.n).y
MonthOf(cell) == SerialToCivil(cell.n).m

DigitVal(c) == CHOOSE k \in 0..9 : <<"0", "1", "2", "3", "4", "5", "6", "7", "8", "9">>[k + 1] = c
DigitChar(k) == <<"0", "1", "2", "3", "4", "5", "6", "7", "8", "9">>[k + 1]

RECURSIVE NatVal(_)
NatVal(s) == IF s = <<>> THEN 0 ELSE NatVal(SubSeq(s, 1, Len(s) - 1)) * 10 + DigitVal(s[Len(s)])

RECURSIVE NatText(_)
NatText(k) == IF k < 10 THEN <<DigitChar(k)>> ELSE NatText(k \div 10) \o <<DigitChar(k % 10)>>

\* str(k) for an integer
IntText(k) == IF k < 0 THEN <<"-">> \o NatText(0 - k) ELSE NatText(k)

DaysInMonth(y, m) ==
    IF m = 2 THEN (IF (y % 4 = 0 /\ y % 100 # 0) \/ y % 400 = 0 THEN 29 ELSE 28)
    ELSE IF m \in {4, 6, 9, 11} THEN 30 ELSE 31

\* pd.to_datetime(text, errors="coerce") on the ISO form YYYY-MM-DD: the
\* date, or NaT for any other text
ParseDateText(x) ==
    LET s == Strip(x)
        shaped == /\ Len(s) = 10
                  /\ s[5] = "-" /\ s[8] = "-"
                  /\ \A i \in {1, 2, 3, 4, 6, 7, 9, 10} : s[i] \in Digits
        y == NatVal(SubSeq(s, 1, 4))
        m == NatVal(SubSeq(s, 6, 7))
        d == NatVal(SubSeq(s, 9, 10))
    IN IF shaped /\ m \in 1..12 /\ d >= 1 /\ d <= DaysInMonth(y, m)
       THEN Date(CivilToSerial(y, m, d)) ELSE NA

\* pd.to_numeric(text, errors="coerce") on integer literals: the number, or
\* NaN for any other text
ParseNumText(x) ==
    LET s == Strip(x)
        body == IF s # <<>> /\ s[1] = "-" THEN Tail(s) ELSE s
    IN IF IsDigit(body) THEN Num(IF s[1] = "-" THEN 0 - NatVal(body) ELSE NatVal(body))
       ELSE NA

\* pd.api.types.is_numeric_dtype(df[c]): read_csv gives a column a numeric
\* dtype exactly when none of its cells is text
IsNumericCol(df, c) == \A r \in 1..NRows(df) : Cell(df, r, c).t # "str"
\* a numeric column holding a NaN is float64, otherwise int64
IsFloatCol(df, c) == IsNumericCol(df, c) /\ \E r \in 1..NRows(df) : Cell(df, r, c).t = "na"

(* ------------------------------------------------------------------ *)
(* _standardize_columns                                                *)
(* ------------------------------------------------------------------ *)
\* (variations, target_name) pairs, in the order the code tries them
column_mappings == <<
    [variations |-> {<<"eop", "che", "myeong">>, col_gonggeupeopchemyeong,
                     <<"bam", "deo", "myeong">>},
     target_name |-> col_gonggeupeopchemyeong],
    [variations |-> {<<"gong", "geup", "eop", "che">>, <<"gong", "geup", "sa", "ko", "deu">>,
                     col_gonggeupeopchekodeu, <<"bam", "deo", "ko", "deu">>},
     target_name |-> col_gonggeupeopchekodeu],
    [variations |-> {<<"gu", "mae", "geu", "rup", "myeong">>, col_gumaegeurup},
     target_name |-> col_gumaegeurup],
    [variations |-> {col_songjanggeumaek, <<"in", "bo", "i", "seu", "geum", "aek">>,
                     <<"bal", "ju", "geum", "aek">>},
     target_name |-> col_songjanggeumaek],
    [variations |-> {col_songjangsuryang, <<"in", "bo", "i", "seu", "su", "ryang">>,
                     <<"bal", "ju", "su", "ryang">>},
     target_name |-> col_songjangsuryang],
    [variations |-> {col_jajae, <<"ja", "jae", "ko", "deu">>, <<"ja", "jae", "beon", "ho">>},
     target_name |-> col_jajae],
    [variations |-> {col_jajaemyeong, <<"ja", "jae", "seol", "myeong">>},
     target_name |-> col_jajaemyeong] >>

\* a variant that takes out the spaces only
NormHeader_spaces(col) == Strip(Replace(col, SPACE, <<>>))

\* norm = col.replace(" ", "").replace("(", "").replace(")", "").strip()
NormHeader(col) == Strip(Replace(Replace(Replace(col, SPACE, <<>>), "(", <<>>), ")", <<>>))

\* a variant that matches a variation anywhere inside the header
RenamedHeader_contains(col) ==
    LET norm == NormHeader(col)
        hits == {k \in 1..Len(column_mappings) :
                    \E var \in column_mappings[k].variations :
                        Contains(norm, Replace(var, SPACE, <<>>))}
    IN IF hits = {} THEN col
       ELSE column_mappings[CHOOSE k \in hits : \A j \in hits : k <= j].target_name

\* the name rename_map gives a column: the target of the first mapping one
\* of whose variations equals norm, or the column's own name
RenamedHeader(col) ==
    LET norm == NormHeader(col)
        hits == {k \in 1..Len(column_mappings) :
                    \E var \in column_mappings[k].variations : norm = Replace(var, SPACE, <<>>)}
    IN IF hits = {} THEN col
       ELSE column_mappings[CHOOSE k \in hits : \A j \in hits : k <= j].target_name

\* a variant that keeps the last column of each name
RECURSIVE LastOccurrences(_, _)
LastOccurrences(cols, i) ==
    IF i > Len(cols) THEN <<>>
    ELSE (IF \E j \in (i + 1)..Len(cols) : cols[j] = cols[i] THEN <<>> ELSE <<i>>)
         \o LastOccurrences(cols, i + 1)

\* the positions kept by df.loc[:, ~df.columns.duplicated()]
RECURSIVE FirstOccurrences(_, _)
FirstOccurrences(cols, i) ==
    IF i > Len(cols) THEN <<>>
    ELSE (IF \E j \in 1..(i - 1) : cols[j] = cols[i] THEN <<>> ELSE <<i>>)
         \o FirstOccurrences(cols, i + 1)

_standardize_columns(df) ==
    LET stripped == [i \in 1..Len(df.columns) |-> Strip(df.columns[i])]
        renamed == [i \in 1..Len(stripped) |-> RenamedHeader(stripped[i])]
        keep == FirstOccurrences(renamed, 1)
    IN [columns |-> [k \in 1..Len(keep) |-> renamed[keep[k]]],
        rows |-> [r \in 1..Len(df.rows) |-> [k \in 1..Len(keep) |-> df.rows[r][keep[k]]]]]

(* ------------------------------------------------------------------ *)
(* load_csv                                                            *)
(* ------------------------------------------------------------------ *)
\* str(x) of a raw cell of column c: a text as it is, NaN as "nan", a number
\* as its digits, with ".0" in a float64 column
CellText(df, r, c) ==
    LET x == Cell(df, r, c)
    IN IF x.t = "str" THEN x.s
       ELSE IF x.t = "na" THEN <<"n", "a", "n">>
       ELSE IF IsFloatCol(df, c) THEN IntText(x.n) \o <<".", "0">> ELSE IntText(x.n)

\* a variant that counts the serial days from 1900-01-01
ToDatetime_origin1900(df, r) ==
    LET x == Cell(df, r, col_magamwol)
    IN IF IsNumericCol(df, col_magamwol)
       THEN (IF x.t = "num" THEN Date(x.n + 2) ELSE NA)
       ELSE (IF x.t = "str" THEN ParseDateText(x.s) ELSE NA)

\* a variant that reads what cannot be parsed as the origin date
ToDatetime_epoch(df, r) ==
    LET x == Cell(df, r, col_magamwol)
    IN IF IsNumericCol(df, col_magamwol)
       THEN (IF x.t = "num" THEN Date(x.n) ELSE Date(0))
       ELSE (IF x.t = "str" /\ ParseDateText(x.s).t = "date" THEN ParseDateText(x.s)
             ELSE Date(0))

\* pd.to_datetime of the closing-month column: serial days when the column
\* is numeric, calendar text otherwise; NaT for what cannot be read
ToDatetime(df, r) ==
    LET x == Cell(df, r, col_magamwol)
    IN IF IsNumericCol(df, col_magamwol)
       THEN (IF x.t = "num" THEN Date(x.n) ELSE NA)
       ELSE (IF x.t = "str" THEN ParseDateText(x.s) ELSE NA)

\* .dt.to_period("M").dt.to_timestamp(): the first day of the date's month
MonthStart(d) ==
    IF d.t = "date" THEN Date(CivilToSerial(YearOf(d), MonthOf(d), 1)) ELSE NA

\* a variant without the fillna(0)
ToNumericFill0_keepna(x) ==
    IF x.t = "num" THEN x
    ELSE IF x.t = "str" /\ ParseNumText(x.s).t = "num" THEN ParseNumText(x.s)
    ELSE NA

\* pd.to_numeric(df[col], errors="coerce").fillna(0)
ToNumericFill0(x) ==
    IF x.t = "num" THEN x
    ELSE IF x.t = "str" /\ ParseNumText(x.s).t = "num" THEN ParseNumText(x.s)
    ELSE Num(0)

num_cols == <<col_songjangsuryang, col_songjanggeumaek, col_danga, col_peulraenteu,
              col_gumaegeurup>>

RECURSIVE CoerceNumCols(_, _)
CoerceNumCols(df, k) ==
    IF k > Len(num_cols) THEN df
    ELSE IF HasCol(df, num_cols[k])
         THEN CoerceNumCols(SetCol(df, num_cols[k],
                  [r \in 1..NRows(df) |-> ToNumericFill0(Cell(df, r, num_cols[k]))]), k + 1)
         ELSE CoerceNumCols(df, k + 1)

\* a variant that knows the ending ".0" only
clean_supplier_code_dot0(isna, text) ==
    IF isna \/ Strip(text) = <<>>
    THEN <<>>
    ELSE IF EndsWith(Strip(text), <<".", "0">>)
         THEN SubSeq(Strip(text), 1, Len(Strip(text)) - 2)
         ELSE Strip(text)

\* clean_supplier_code(x), on str(x) = text with isna = pd.isna(x)
clean_supplier_code(isna, text) ==
    IF isna \/ Lower(text) \in {<<"n", "a", "n">>, <<"n", "o", "n", "e">>, <<>>}
       \/ Strip(text) = <<>>
    THEN <<>>
    ELSE LET str_val == Strip(text)
         IN IF EndsWith(str_val, <<".", "0">>) THEN SubSeq(str_val, 1, Len(str_val) - 2)
            ELSE IF EndsWith(str_val, <<".", "0", "0">>)
                 THEN SubSeq(str_val, 1, Len(str_val) - 3)
            ELSE str_val

\* a variant that joins the code and the name without the underscore
SupplierDisplay_nosep(code, name) ==
    IF code # <<>> /\ Strip(name) # <<>> /\ name # <<"n", "a", "n">>
    THEN code \o Strip(name)
    ELSE IF name # <<"n", "a", "n">> THEN Strip(name) ELSE <<>>

\* the eopchepyosi lambda, from the cleaned code and the name text
SupplierDisplay(code, name) ==
    IF code # <<>> /\ Strip(name) # <<>> /\ name # <<"n", "a", "n">>
    THEN code \o <<UNDERSCORE>> \o Strip(name)
    ELSE IF name # <<"n", "a", "n">> THEN Strip(name) ELSE <<>>

\* df["magamwol"] = pd.to_datetime(...)
WithDates(df) == SetCol(df, col_magamwol, [r \in 1..NRows(df) |-> ToDatetime(df, r)])

\* df["yeondo"] = df["magamwol"].dt.year.astype("Int64")
WithYear(df) ==
    SetCol(df, col_yeondo,
           [r \in 1..NRows(df) |->
               IF Cell(df, r, col_magamwol).t = "date"
               THEN Num(YearOf(Cell(df, r, col_magamwol))) ELSE NA])

\* df["yeonwol"] = df["magamwol"].dt.to_period("M").dt.to_timestamp()
WithYearMonth(df) ==
    SetCol(df, col_yeonwol, [r \in 1..NRows(df) |-> MonthStart(Cell(df, r, col_magamwol))])

\* df["gonggeupeopchemyeong"] = df["gonggeupeopchemyeong"].astype(str).str.strip()
WithSupplierName(df) ==
    IF HasCol(df, col_gonggeupeopchemyeong)
    THEN SetCol(df, col_gonggeupeopchemyeong,
                [r \in 1..NRows(df) |-> Str(Strip(CellText(df, r, col_gonggeupeopchemyeong)))])
    ELSE df

\* df["gonggeupeopchekodeu"] = df["gonggeupeopchekodeu"].apply(clean_supplier_code)
WithSupplierCode(df) ==
    SetCol(df, col_gonggeupeopchekodeu,
           [r \in 1..NRows(df) |->
               Str(clean_supplier_code(Cell(df, r, col_gonggeupeopchekodeu).t = "na",
                                       CellText(df, r, col_gonggeupeopchekodeu)))])

\* df["eopchepyosi"] = df.apply(lambda row: ..., axis=1)
WithDisplayFromCode(df) ==
    SetCol(df, col_eopchepyosi,
           [r \in 1..NRows(df) |->
               Str(SupplierDisplay(Cell(df, r, col_gonggeupeopchekodeu).s,
                                   Cell(df, r, col_gonggeupeopchemyeong).s))])

\* df["eopchepyosi"] = df["gonggeupeopchemyeong"]
WithDisplayFromName(df) ==
    SetCol(df, col_eopchepyosi,
           [r \in 1..NRows(df) |-> Cell(df, r, col_gonggeupeopchemyeong)])

\* the supplier columns of load_csv, on the table with its names stripped
SupplierColumns(df) ==
    IF HasCol(df, col_gonggeupeopchekodeu)
    THEN (IF HasCol(df, col_gonggeupeopchemyeong)
          THEN [status |-> "ok", df |-> WithDisplayFromCode(WithSupplierCode(df))]
          ELSE [status |-> "error", df |-> df])
    ELSE IF HasCol(df, col_gonggeupeopchemyeong)
         THEN [status |-> "ok", df |-> WithDisplayFromName(df)]
    ELSE [status |-> "ok", df |-> df]

\* load_csv after read_csv: [status, df].  status is "ok", "stop" (st.stop()
\* after the missing-column error) or "error" (an exception: the display
\* lambda reads a supplier-name column that is absent).
load_csv(upload) ==
    IF ~HasCol(_standardize_columns(upload), col_magamwol)
    THEN [status |-> "stop", df |-> _standardize_columns(upload)]
    ELSE SupplierColumns(WithSupplierName(CoerceNumCols(
             WithYearMonth(WithYear(WithDates(_standardize_columns(upload)))), 1)))

(* ------------------------------------------------------------------ *)
(* Filter options (sidebar)                                            *)
(* ------------------------------------------------------------------ *)
\* sorted(set of integers) as a list
RECURSIVE SortInts(_)
SortInts(S) ==
    IF S = {} THEN <<>>
    ELSE LET m == CHOOSE x \in S : \A y \in S : x <= y
         IN <<m>> \o SortInts(S \ {m})

\* the members of a set of texts as a list (the order plays no part in IN)
RECURSIVE ListOf(_)
ListOf(S) ==
    IF S = {} THEN <<>>
    ELSE LET x == CHOOSE y \in S : TRUE IN <<x>> \o ListOf(S \ {x})

Range(q) == {q[i] : i \in 1..Len(q)}

\* strftime('%Y-%m') of a month start, kept as the number YYYYMM (the texts
\* sort as these numbers do); year, month = ym.split('-')
YmOf(d) == YearOf(d) * 100 + MonthOf(d)
YmYear(ym) == ym \div 100
YmMonth(ym) == ym % 100

yearmonths_all(df) ==
    SortInts({YmOf(Cell(df, r, col_yeonwol)) :
                 r \in {q \in 1..NRows(df) : Cell(df, q, col_yeonwol).t = "date"}})

\* sorted([x for x in df[c].dropna().astype(int).unique() if x > 0])
PositiveCodes(df, c) ==
    IF HasCol(df, c)
    THEN {Cell(df, r, c).n : r \in {q \in 1..NRows(df) :
                                       Cell(df, q, c).t = "num" /\ Cell(df, q, c).n > 0}}
    ELSE {}

plants_all(df) == PositiveCodes(df, col_peulraenteu)
groups_all(df) == PositiveCodes(df, col_gumaegeurup)

\* str(x).strip() != '' and 'nan' not in str(x).lower()
Presentable(x) == Strip(x) # <<>> /\ ~Contains(Lower(x), <<"n", "a", "n">>)

TextOptions(df, c) ==
    IF HasCol(df, c)
    THEN {Cell(df, r, c).s : r \in {q \in 1..NRows(df) :
                                       Cell(df, q, c).t = "str" /\ Presentable(Cell(df, q, c).s)}}
    ELSE {}

suppliers_all(df) ==
    {x \in TextOptions(df, col_eopchepyosi) : ~StartsWith(x, <<"0", UNDERSCORE>>)}
parts_all(df) == TextOptions(df, col_pateu)
categories_all(df) == TextOptions(df, col_kategori)
kpi_categories_all(df) == TextOptions(df, col_kpi)

\* the multiselect keys: pl_ms, gr_ms, sp_ms, pt_ms, ct_ms, kc_ms
MsKeys == {"pl", "gr", "sp", "pt", "ct", "kc"}

Options(df) ==
    [k \in MsKeys |->
        IF k = "pl" THEN plants_all(df)
        ELSE IF k = "gr" THEN groups_all(df)
        ELSE IF k = "sp" THEN suppliers_all(df)
        ELSE IF k = "pt" THEN parts_all(df)
        ELSE IF k = "ct" THEN categories_all(df)
        ELSE kpi_categories_all(df)]

\* the column a multiselect filters
MsColumn(df, k) ==
    IF k = "pl" THEN col_peulraenteu
    ELSE IF k = "gr" THEN col_gumaegeurup
    ELSE IF k = "sp" THEN (IF HasCol(df, col_gonggeupeopchekodeu)
                           THEN col_gonggeupeopchekodeu ELSE col_gonggeupeopchemyeong)
    ELSE IF k = "pt" THEN col_pateu
    ELSE IF k = "ct" THEN col_kategori
    ELSE col_kpi

\* yearmonths_all[start_idx:end_idx+1], or the reverse range
sel_yearmonths(yms, start_ym, end_ym) ==
    LET start_idx == CHOOSE i \in 1..Len(yms) : yms[i] = start_ym
        end_idx == CHOOSE i \in 1..Len(yms) : yms[i] = end_ym
    IN IF start_idx <= end_idx THEN SubSeq(yms, start_idx, end_idx)
       ELSE SubSeq(yms, end_idx, start_idx)

(* ------------------------------------------------------------------ *)
(* WHERE clause assembly and its evaluation by the engine              *)
(* ------------------------------------------------------------------ *)
Clause(kind, col, nums, text, conds) ==
    [kind |-> kind, col |-> col, nums |-> nums, text |-> text, conds |-> conds]

\* s.split("_", 1)[0] and [1]
BeforeUnderscore(s) ==
    SubSeq(s, 1, (CHOOSE i \in 1..Len(s) : s[i] = UNDERSCORE
                                           /\ \A j \in 1..(i - 1) : s[j] # UNDERSCORE) - 1)
AfterUnderscore(s) ==
    SubSeq(s, (CHOOSE i \in 1..Len(s) : s[i] = UNDERSCORE
                                        /\ \A j \in 1..(i - 1) : s[j] # UNDERSCORE) + 1, Len(s))

\* the codes list built from the selected display strings
RECURSIVE SupplierCodes(_)
SupplierCodes(sel) ==
    IF sel = <<>> THEN <<>>
    ELSE LET s == sel[1]
         IN (IF HasChar(s, UNDERSCORE)
             THEN (IF BeforeUnderscore(s) # <<>> /\ BeforeUnderscore(s) # <<"0">>
                   THEN <<BeforeUnderscore(s)>> ELSE <<>>)
             ELSE IF s # <<>> /\ s # <<"0">> THEN <<s>> ELSE <<>>)
            \o SupplierCodes(Tail(sel))

\* the names list built from the selected display strings
RECURSIVE SupplierNames(_)
SupplierNames(sel) ==
    IF sel = <<>> THEN <<>>
    ELSE LET s == sel[1]
         IN (IF HasChar(s, UNDERSCORE)
             THEN (IF AfterUnderscore(s) # <<>> /\ Strip(AfterUnderscore(s)) # <<>>
                   THEN <<Strip(AfterUnderscore(s))>> ELSE <<>>)
             ELSE IF s # <<>> /\ Strip(s) # <<>> THEN <<Strip(s)>> ELSE <<>>)
            \o SupplierNames(Tail(sel))

YmClause(yms) == Clause("ym", col_magamwol, yms, <<>>, <<>>)

\* a variant that appends the clause whether or not there are options
NumClause_always(df, k, opts, sel) ==
    <<Clause("in_num", MsColumn(df, k), sql_list_num(SortInts(sel)), <<>>, <<>>)>>

\* if plants_all: clauses.append(f"peulraenteu IN ({sql_list_num(sel_plants)})")
NumClause(df, k, opts, sel) ==
    IF opts # {}
    THEN <<Clause("in_num", MsColumn(df, k), sql_list_num(SortInts(sel)), <<>>, <<>>)>>
    ELSE <<>>

\* the supplier clause: on the code column when it exists, else on the name
SupplierClause(df, opts, sel) ==
    IF opts # {} THEN
        IF HasCol(df, col_gonggeupeopchekodeu)
        THEN LET codes == SupplierCodes(ListOf(sel))
             IN IF codes # <<>>
                THEN <<Clause("in_str", col_gonggeupeopchekodeu, <<>>, sql_list_str(codes), <<>>)>>
                ELSE <<>>
        ELSE LET names == SupplierNames(ListOf(sel))
             IN IF names # <<>>
                THEN <<Clause("in_str", col_gonggeupeopchemyeong, <<>>, sql_list_str(names), <<>>)>>
                ELSE <<>>
    ELSE <<>>

\* if parts_all and sel_parts: clauses.append(f"pateu IN ({sql_list_str(sel_parts)})")
TextClause(df, k, opts, sel) ==
    IF opts # {} /\ sel # {}
    THEN <<Clause("in_str", MsColumn(df, k), <<>>, sql_list_str(ListOf(sel)), <<>>)>>
    ELSE <<>>

MaterialClause(name_search, code_search) ==
    LET conds == material_search_conditions(name_search, code_search)
    IN IF conds # <<>> THEN <<Clause("material", <<>>, <<>>, <<>>, conds)>> ELSE <<>>

\* clauses, joined by AND into where_sql
BuildClauses(df, opts, sel, yms, name_search, code_search) ==
    <<YmClause(yms)>>
    \o NumClause(df, "pl", opts["pl"], sel["pl"])
    \o NumClause(df, "gr", opts["gr"], sel["gr"])
    \o SupplierClause(df, opts["sp"], sel["sp"])
    \o TextClause(df, "pt", opts["pt"], sel["pt"])
    \o TextClause(df, "ct", opts["ct"], sel["ct"])
    \o TextClause(df, "kc", opts["kc"], sel["kc"])
    \o MaterialClause(name_search, code_search)

\* CAST(col AS VARCHAR) of a loaded cell; NULL stays NULL
CastVarchar(df, r, c) ==
    LET x == Cell(df, r, c)
    IN IF x.t = "str" THEN x.s
       ELSE IF IsFloatCol(df, c) THEN IntText(x.n) \o <<".", "0">> ELSE IntText(x.n)

\* the engine refuses a statement that names a column the table lacks or
\* holds a malformed literal
ClauseValid(df, cl) ==
    IF cl.kind = "material"
    THEN \A g \in 1..Len(cl.conds) : \A k \in 1..Len(cl.conds[g]) :
            /\ CmpWellFormed(cl.conds[g][k])
            /\ HasCol(df, IF cl.conds[g][k].col = "jajae" THEN col_jajae ELSE col_jajaemyeong)
    ELSE IF cl.kind = "in_str"
    THEN HasCol(df, cl.col) /\ SqlReadStrList(cl.text) # SyntaxError
    ELSE HasCol(df, cl.col)

\* whether row r satisfies one clause (a comparison with NULL is not true)
EvalClause(df, r, cl) ==
    IF cl.kind = "ym" THEN
        LET d == Cell(df, r, col_magamwol)
        IN d.t = "date" /\ \E i \in 1..Len(cl.nums) :
               YearOf(d) = YmYear(cl.nums[i]) /\ MonthOf(d) = YmMonth(cl.nums[i])
    ELSE IF cl.kind = "in_num" THEN
        LET x == Cell(df, r, cl.col)
        IN x.t = "num" /\ \E i \in 1..Len(cl.nums) : x.n = cl.nums[i]
    ELSE IF cl.kind = "in_str" THEN
        LET x == Cell(df, r, cl.col)
            lits == SqlReadStrList(cl.text)
        IN x.t = "str" /\ \E i \in 1..Len(lits) : x.s = lits[i]
    ELSE
        \A g \in 1..Len(cl.conds) : \E k \in 1..Len(cl.conds[g]) :
              LET c == cl.conds[g][k]
                  tc == IF c.col = "jajae" THEN col_jajae ELSE col_jajaemyeong
              IN /\ Cell(df, r, tc).t # "na"
                 /\ EvalCmp(c, [f \in {c.col} |-> CastVarchar(df, r, tc)])

\* the rows WHERE clause-1 AND clause-2 ... selects
MatchingRows(df, clauses) ==
    {r \in 1..NRows(df) : \A i \in 1..Len(clauses) : EvalClause(df, r, clauses[i])}

(* ------------------------------------------------------------------ *)
(* The trend query                                                     *)
(* ------------------------------------------------------------------ *)
\* the selectbox choices: metric_select, group_select, time_unit_select
MetricOptions == {"songjanggeumaek", "songjangsuryang", "songjanggeumaek+songjangsuryang"}
GroupOptions ==
    {"jeonche", "peulraenteubyeol", "eopchebyeol", "peulraenteu+eopchebyeol", "pateubyeol",
     "kategori(choejong)byeol", "KPIyongkategoribyeol", "pateu+kategori(choejong)byeol",
     "pateu+KPIyongkategoribyeol"}
TimeUnits == {"wolbyeol", "yeondobyeol"}

\* a variant that divides both sums by a thousand
metric_col_thousands(metric_option) ==
    IF metric_option = "songjanggeumaek"
    THEN <<[col |-> col_songjanggeumaek, per |-> 1000]>>
    ELSE IF metric_option = "songjangsuryang"
    THEN <<[col |-> col_songjangsuryang, per |-> 1000]>>
    ELSE <<[col |-> col_songjanggeumaek, per |-> 1000],
           [col |-> col_songjangsuryang, per |-> 1000]>>

\* metric_col: the summed columns, each with the number its sum is divided by
metric_col(metric_option) ==
    IF metric_option = "songjanggeumaek"
    THEN <<[col |-> col_songjanggeumaek, per |-> 1000000]>>
    ELSE IF metric_option = "songjangsuryang"
    THEN <<[col |-> col_songjangsuryang, per |-> 1000]>>
    ELSE <<[col |-> col_songjanggeumaek, per |-> 1000000],
           [col |-> col_songjangsuryang, per |-> 1000]>>

\* group_by_sql: the columns selected and grouped by beside the time
group_by_sql(group_option) ==
    CASE group_option = "jeonche" -> <<>>
      [] group_option = "peulraenteubyeol" -> <<col_peulraenteu>>
      [] group_option = "eopchebyeol" -> <<col_gonggeupeopchemyeong>>
      [] group_option = "peulraenteu+eopchebyeol" -> <<col_peulraenteu, col_gonggeupeopchemyeong>>
      [] group_option = "pateubyeol" -> <<col_pateu>>
      [] group_option = "kategori(choejong)byeol" -> <<col_kategori>>
      [] group_option = "KPIyongkategoribyeol" -> <<col_kpi>>
      [] group_option = "pateu+kategori(choejong)byeol" -> <<col_pateu, col_kategori>>
      [] OTHER -> <<col_pateu, col_kpi>>

\* time_col of a record: date_trunc('month', magamwol), kept as the number
\* YYYYMM, or yeondo
time_col(df, r, time_unit) ==
    IF time_unit = "wolbyeol" THEN YmOf(Cell(df, r, col_magamwol))
    ELSE Cell(df, r, col_yeondo).n

\* ORDER BY 1, 2{', 3' if group_option in [...] else ''}
order_by(group_option) ==
    IF group_option \in {"peulraenteu+eopchebyeol", "pateu+kategori(choejong)byeol",
                         "pateu+KPIyongkategoribyeol"}
    THEN <<1, 2, 3>> ELSE <<1, 2>>

\* the characters of the table values, by code point
CharOrder ==
    <<SPACE, "(", ")", ".", "0", "1", "2", "3", "4", "5", "6", "7", "8", "9",
      "A", "B", "C", "D", "E", "F", "K", "P", "Q", "R", "Z", UNDERSCORE,
      "a", "b", "c", "d", "f", "x", "z">>
CharRank(c) == CHOOSE i \in 1..Len(CharOrder) : CharOrder[i] = c

\* a < b between two texts
RECURSIVE TextLess(_, _)
TextLess(a, b) ==
    IF b = <<>> THEN FALSE
    ELSE IF a = <<>> THEN TRUE
    ELSE IF a[1] = b[1] THEN TextLess(Tail(a), Tail(b))
    ELSE CharRank(a[1]) < CharRank(b[1])

\* x before y in an ascending ORDER BY: NULL comes last
CellLess(x, y) ==
    IF x.t = "na" THEN FALSE
    ELSE IF y.t = "na" THEN TRUE
    ELSE IF x.t = "str" THEN TextLess(x.s, y.s)
    ELSE x.n < y.n

\* SUM(c) over a set of records
RECURSIVE SumOf(_, _, _)
SumOf(df, rows, c) ==
    IF rows = {} THEN 0
    ELSE LET r == CHOOSE q \in rows : TRUE
         IN Cell(df, r, c).n + SumOf(df, rows \ {r}, c)

\* the value at a position of the select list: the time, the group columns,
\* the metrics (a quotient sorts as its sum does)
SelectValue(row, pos) ==
    IF pos = 1 THEN Num(row.time)
    ELSE IF pos - 1 <= Len(row.keys) THEN row.keys[pos - 1]
    ELSE Num(row.metrics[pos - 1 - Len(row.keys)].sum)

RowLess(a, b, order) ==
    \E k \in 1..Len(order) :
        /\ \A j \in 1..(k - 1) : SelectValue(a, order[j]) = SelectValue(b, order[j])
        /\ CellLess(SelectValue(a, order[k]), SelectValue(b, order[k]))

RECURSIVE SortRows(_, _)
SortRows(S, order) ==
    IF S = {} THEN <<>>
    ELSE LET m == CHOOSE x \in S : \A y \in S : ~RowLess(y, x, order)
         IN <<m>> \o SortRows(S \ {m}, order)

\* SELECT {select_cols} FROM data {where_sql} {group_by_clause} ORDER BY ...:
\* the engine raises when a column it names is not in the table; otherwise
\* one row per group of the selected records, each metric the sum over the
\* group, to be divided by per
sql_query(df, clauses, metric_option, group_option, time_unit) ==
    LET gcols == group_by_sql(group_option)
        mcols == metric_col(metric_option)
        sel == MatchingRows(df, clauses)
        key(r) == [time |-> time_col(df, r, time_unit),
                   keys |-> [k \in 1..Len(gcols) |-> Cell(df, r, gcols[k])]]
        group(g) == {r \in sel : key(r) = g}
    IN IF \/ \E i \in 1..Len(clauses) : ~ClauseValid(df, clauses[i])
          \/ \E k \in 1..Len(gcols) : ~HasCol(df, gcols[k])
          \/ \E k \in 1..Len(mcols) : ~HasCol(df, mcols[k].col)
       THEN [status |-> "error", rows |-> <<>>]
       ELSE [status |-> "ok",
             rows |-> SortRows({[time |-> g.time, keys |-> g.keys,
                                 metrics |-> [k \in 1..Len(mcols) |->
                                                [sum |-> SumOf(df, group(g), mcols[k].col),
                                                 per |-> mcols[k].per]]] :
                                   g \in {key(r) : r \in sel}},
                               order_by(group_option))]

(* ------------------------------------------------------------------ *)
(* The raw-data query and the supplier summary                         *)
(* ------------------------------------------------------------------ *)
\* the supplier summary reads the supplier name and sums both metrics
SummaryColumns == {col_gonggeupeopchemyeong, col_songjangsuryang, col_songjanggeumaek}

\* the columns the raw-data statement selects
RawColumns ==
    {col_magamwol, col_peulraenteu, col_gumaegeurup, col_gonggeupeopchemyeong, col_jajae,
     col_jajaemyeong, col_songjangsuryang, col_songjanggeumaek, col_danga}

\* additional_filters of the raw-data query, without grouping: each
\* multiselect that has options and a selection
additional_filters(df, opts, sel) ==
    (IF sel["pl"] # {} THEN NumClause(df, "pl", opts["pl"], sel["pl"]) ELSE <<>>)
    \o (IF sel["gr"] # {} THEN NumClause(df, "gr", opts["gr"], sel["gr"]) ELSE <<>>)
    \o (IF sel["sp"] # {} THEN SupplierClause(df, opts["sp"], sel["sp"]) ELSE <<>>)
    \o TextClause(df, "pt", opts["pt"], sel["pt"])
    \o TextClause(df, "ct", opts["ct"], sel["ct"])
    \o TextClause(df, "kc", opts["kc"], sel["kc"])

\* raw_df = con.execute(raw_data_query).fetchdf(): the records of the
\* chosen year-months that pass additional_filters
raw_data_query(df, opts, sel, query_yearmonths) ==
    LET cl == <<YmClause(query_yearmonths)>> \o additional_filters(df, opts, sel)
    IN IF /\ \A c \in RawColumns : HasCol(df, c)
          /\ \A i \in 1..Len(cl) : ClauseValid(df, cl[i])
       THEN [status |-> "ok", rows |-> MatchingRows(df, cl)]
       ELSE [status |-> "error", rows |-> {}]

\* sup_df = con.execute(... FROM data {where_sql} GROUP BY ...), made when
\* suppliers_all is not empty: the records it sums
sup_df(df, opts, clauses) ==
    IF opts["sp"] = {} THEN [status |-> "skipped", rows |-> {}]
    ELSE IF /\ \A c \in SummaryColumns : HasCol(df, c)
            /\ \A i \in 1..Len(clauses) : ClauseValid(df, clauses[i])
    THEN [status |-> "ok", rows |-> MatchingRows(df, clauses)]
    ELSE [status |-> "error", rows |-> {}]

\* the records the trend query sums, with the default selectors
time_df(df, clauses) ==
    IF sql_query(df, clauses, "songjanggeumaek", "jeonche", "wolbyeol").status = "ok"
    THEN [status |-> "ok", rows |-> MatchingRows(df, clauses)]
    ELSE [status |-> "error", rows |-> {}]

(* ------------------------------------------------------------------ *)
(* Shares of a time point's total                                      *)
(* ------------------------------------------------------------------ *)
\* A result frame is [cols, rows]: the column names in order, and one
\* function from column name to number per row.  The grouping value of a row
\* is a number here.
pct_time == "time"
pct_group == "group"
pct_amount == "songjanggeumaek_baekmanwon"
pct_quantity == "songjangsuryang_cheonEA"

\* f'{value_col}_bijung'
ShareCol(value_col) ==
    IF value_col = pct_amount THEN "songjanggeumaek_baekmanwon_bijung"
    ELSE "songjangsuryang_cheonEA_bijung"

\* round(x, 0) of the quotient num / den * 100: to the nearest whole number, a
\* half to the even one
RoundedPercent(num, den) ==
    LET q == (100 * num) \div den
        r == (100 * num) % den
    IN IF 2 * r < den THEN q
       ELSE IF 2 * r > den THEN q + 1
       ELSE IF q % 2 = 0 THEN q ELSE q + 1

RECURSIVE ColumnSum(_, _, _, _, _)
\* groupby(time_name)[value_col].sum() for one time point, over rows 1..n
ColumnSum(rows, n, time_name, t, value_col) ==
    IF n = 0 THEN 0
    ELSE ColumnSum(rows, n - 1, time_name, t, value_col)
         + (IF rows[n][time_name] = t THEN rows[n][value_col] ELSE 0)

\* DataFrame.merge(right, on=time_name, how='left') with right = [time_name,
\* 'total']: a column 'total' the left frame already has becomes 'total_x' and
\* the new one 'total_y'
merge_totals(df, time_name, value_col) ==
    LET overlap == \E i \in 1..Len(df.cols) : df.cols[i] = "total"
        left(c) == IF overlap /\ c = "total" THEN "total_x" ELSE c
        right == IF overlap THEN "total_y" ELSE "total"
        cols == [i \in 1..Len(df.cols) |-> left(df.cols[i])] \o <<right>>
        names == {cols[i] : i \in 1..Len(cols)}
        total(r) == ColumnSum(df.rows, Len(df.rows), time_name, df.rows[r][time_name], value_col)
    IN [cols |-> cols,
        rows |-> [r \in 1..Len(df.rows) |->
                    [c \in names |->
                       IF c = right THEN total(r)
                       ELSE IF c = "total_x" /\ overlap THEN df.rows[r]["total"]
                       ELSE df.rows[r][c]]]]

\* calculate_percentage_data: the frame with the time point's total and the
\* share column added; row['total'] raises KeyError when the merged frame has
\* no column of that name
calculate_percentage_data(df, time_name, group_col, value_col) ==
    LET merged == merge_totals(df, time_name, value_col)
        names == {merged.cols[i] : i \in 1..Len(merged.cols)}
        share == ShareCol(value_col)
    IN IF "total" \notin names /\ Len(merged.rows) > 0
       THEN [status |-> "KeyError", df |-> merged]
       ELSE [status |-> "ok",
             df |-> [cols |-> IF share \in names THEN merged.cols
                              ELSE merged.cols \o <<share>>,
                     rows |-> [r \in 1..Len(merged.rows) |->
                                 [c \in names \cup {share} |->
                                    IF c = share
                                    THEN IF merged.rows[r]["total"] > 0
                                         THEN RoundedPercent(merged.rows[r][value_col],
                                                             merged.rows[r]["total"])
                                         ELSE 0
                                    ELSE merged.rows[r][c]]]]]

DisplayModes == {"siljegap", "bijung(%)"}

\* the share step of the else branch: nothing in actual-value mode or without
\* grouping, both metrics one after the other for the combined chart, the
\* chosen metric otherwise
percentage_step(df, display_mode, group_option, metric_option) ==
    IF display_mode = "bijung(%)" /\ group_option # "jeonche"
    THEN IF metric_option = "songjanggeumaek+songjangsuryang"
         THEN LET first == calculate_percentage_data(df, pct_time, pct_group, pct_amount)
              IN IF first.status # "ok" THEN first
                 ELSE calculate_percentage_data(first.df, pct_time, pct_group, pct_quantity)
         ELSE calculate_percentage_data(df, pct_time, pct_group,
                  IF metric_option = "songjanggeumaek" THEN pct_amount ELSE pct_quantity)
    ELSE [status |-> "ok", df |-> df]

(* ------------------------------------------------------------------ *)
(* Uploadable files                                                    *)
(* ------------------------------------------------------------------ *)
\* a.csv: serial dates (one empty), plant, numeric supplier code (one
\* empty), supplier name, part, material code and name, quantity, amount
FileA ==
    [name |-> "a.csv",
     data |->
       [columns |-> <<col_magamwol, col_peulraenteu, <<"gong", "geup", "eop", "che">>,
                      <<"eop", "che", "myeong">>, col_pateu, col_jajae, col_jajaemyeong,
                      col_songjangsuryang, col_songjanggeumaek>>,
        rows |-> <<
          <<Num(45292), Num(1000), Num(11), Str(<<"A", "b">>), Str(<<"P", "1">>),
            Num(11), Str(<<"a", "A">>), Num(500), Num(1000000)>>,
          <<Num(45323), Num(2000), Num(22), Str(<<"C", "_", "d">>), Str(<<"P", "2">>),
            Num(12), Str(<<"b", "1">>), Num(1500), Num(2000000)>>,
          <<NA, Num(-1), NA, Str(<<"E", "f">>), NA,
            Num(21), Str(<<"a">>), Num(10), Num(5)>> >>]]

\* a second file that is also called a.csv
FileA2 ==
    [name |-> "a.csv",
     data |->
       [columns |-> <<col_magamwol, col_peulraenteu, <<"eop", "che", "myeong">>,
                      col_songjangsuryang, col_songjanggeumaek>>,
        rows |-> <<
          <<Num(45352), Num(3000), Str(<<"Z", "z">>), Num(7), Num(3000000)>> >>]]

\* a second file called c.csv: its closing-month header is written with an
\* inner space, which no synonym list covers
FileB ==
    [name |-> "c.csv",
     data |->
       [columns |-> <<<<"ma", "gam", SPACE, "wol">>, col_peulraenteu, col_songjanggeumaek>>,
        rows |-> << <<Num(45292), Num(1000), Num(1)>> >>]]

\* c.csv: text dates (one unreadable), header variants, purchasing group,
\* supplier name only, category and KPI category
FileC ==
    [name |-> "c.csv",
     data |->
       [columns |-> <<<<SPACE, "ma", "gam", "wol", SPACE>>,
                      <<"gu", "mae", "geu", "rup", "myeong">>, <<"bam", "deo", "myeong">>,
                      col_kategori, col_kpi, <<"ja", "jae", "seol", "myeong">>,
                      <<"ja", "jae", "ko", "deu">>,
                      <<"in", "bo", "i", "seu", "geum", "aek">>, <<"bal", "ju", "su", "ryang">>>>,
        rows |-> <<
          <<Str(<<"2", "0", "2", "4", "-", "0", "1", "-", "1", "5">>), Str(<<"1", "0">>),
            Str(<<"A", "b">>), Str(<<"K", "1">>), Str(<<"Q">>), Str(<<"a">>),
            Str(<<"1", "1">>), Num(4000000), Num(2000)>>,
          <<Str(<<"x", "1">>), Str(<<"x">>), NA, Str(<<"K", "2">>), Str(<<"Q">>), Str(<<"A", "1">>),
            Str(<<"a", "1">>), Num(6), Num(3)>>,
          <<Str(<<"2", "0", "2", "3", "-", "1", "2", "-", "3", "1">>), Str(<<"2", "0">>),
            Str(<<"E", "f">>), Str(<<"K", "2">>), NA, Str(<<"b">>),
            Str(<<"1", "2">>), Num(8000000), Num(100)>> >>]]

Files == {FileA, FileA2, FileB, FileC}

\* texts the user types into the two search text areas
NameEdits == {<<>>, <<"a">>}
CodeEdits == {<<>>, <<"1", "1">>}

(* ------------------------------------------------------------------ *)
(* The session and the script run                                      *)
(* ------------------------------------------------------------------ *)
\* most user interactions in one browser session
MaxEvents == 4

\* An optional value is <<>> (absent / None) or <<v>>.
VARIABLES
    uploaded,        \* the file in the uploader widget
    ss_df,           \* st.session_state["df"]
    ss_file_name,    \* st.session_state["file_name"]
    ss_ms,           \* st.session_state[<prefix>_ms], per multiselect key
    ss_period,       \* the start_ym / end_ym select boxes
    ss_chart,        \* the time_unit_select select box
    ss_name_search,  \* st.session_state.global_material_name_search
    ss_code_search,  \* st.session_state.global_material_code_search
    w_name,          \* the material_name_input text area
    w_code,          \* the material_code_input text area
    clicked,         \* the button pressed for the coming run
    pc,              \* where the script run stands
    run,             \* what the current (or last) run has done
    events           \* user interactions so far

appvars == <<uploaded, ss_df, ss_file_name, ss_ms, ss_period, ss_chart, ss_name_search,
             ss_code_search, w_name, w_code, clicked, pc, run, events>>
vars == <<call, appvars>>

NoSelection == [k \in MsKeys |-> {}]

\* a run that has done nothing yet; trigger is what started it
NewRun(trigger) ==
    [status |-> "running", trigger |-> trigger, loaded |-> FALSE, executed |-> {},
     opts |-> NoSelection, sel |-> NoSelection, yms_all |-> <<>>, yms |-> <<>>,
     clauses |-> <<>>, time_rows |-> {}]

AppInit ==
    /\ uploaded = <<>>
    /\ ss_df = <<>>
    /\ ss_file_name = <<>>
    /\ ss_ms = [k \in MsKeys |-> <<>>]
    /\ ss_period = <<>>
    /\ ss_chart = <<>>
    /\ ss_name_search = <<>>
    /\ ss_code_search = <<>>
    /\ w_name = <<>>
    /\ w_code = <<>>
    /\ clicked = "none"
    /\ pc = "idle"
    /\ run = [NewRun("none") EXCEPT !.status = "none"]
    /\ events = 0

\* the run of the coming interaction starts at the top of the script
StartRun(trigger) ==
    /\ pc = "idle"
    /\ events < MaxEvents
    /\ events' = events + 1
    /\ pc' = "upload"
    /\ run' = NewRun(trigger)
    /\ UNCHANGED call

\* the table the script works on, df
TheDf == ss_df[1]

\* what the page of the last run shows
SidebarShown == "filters" \in run.executed
SearchShown == "search" \in run.executed

(* ---- user interactions ------------------------------------------- *)
UserUpload ==
    /\ \E f \in Files : uploaded # <<f>> /\ uploaded' = <<f>>
    /\ StartRun("upload")
    /\ UNCHANGED <<ss_df, ss_file_name, ss_ms, ss_period, ss_chart, ss_name_search, ss_code_search,
                   w_name, w_code, clicked>>

UserRemoveFile ==
    /\ uploaded # <<>>
    /\ uploaded' = <<>>
    /\ StartRun("upload")
    /\ UNCHANGED <<ss_df, ss_file_name, ss_ms, ss_period, ss_chart, ss_name_search, ss_code_search,
                   w_name, w_code, clicked>>

\* the user reruns the page as it is
UserRerun ==
    /\ StartRun("rerun")
    /\ UNCHANGED <<uploaded, ss_df, ss_file_name, ss_ms, ss_period, ss_chart, ss_name_search,
                   ss_code_search, w_name, w_code, clicked>>

\* the user changes one multiselect to any subset of its options
UserSelect ==
    /\ SidebarShown
    /\ \E k \in MsKeys : \E S \in SUBSET run.opts[k] :
          /\ run.opts[k] # {}
          /\ ss_ms[k] # <<S>>
          /\ ss_ms' = [ss_ms EXCEPT ![k] = <<S>>]
    /\ StartRun("filter")
    /\ UNCHANGED <<uploaded, ss_df, ss_file_name, ss_period, ss_chart, ss_name_search, ss_code_search,
                   w_name, w_code, clicked>>

\* the select-all button of a multiselect: on_click=_set_all, args=(ms_key, options)
_set_all ==
    /\ SidebarShown
    /\ \E k \in MsKeys :
          /\ run.opts[k] # {}
          /\ ss_ms' = [ss_ms EXCEPT ![k] = <<run.opts[k]>>]
    /\ StartRun("button")
    /\ UNCHANGED <<uploaded, ss_df, ss_file_name, ss_period, ss_chart, ss_name_search, ss_code_search,
                   w_name, w_code, clicked>>

\* the reset-all-filters button
UserClearAllFilters ==
    /\ SidebarShown
    /\ clicked' = "clear_all_filters"
    /\ StartRun("button")
    /\ UNCHANGED <<uploaded, ss_df, ss_file_name, ss_ms, ss_period, ss_chart, ss_name_search,
                   ss_code_search, w_name, w_code>>

\* the user picks a start and an end year-month
UserPickPeriod ==
    /\ SidebarShown
    /\ \E a \in Range(run.yms_all) : \E b \in Range(run.yms_all) :
          /\ ss_period # <<[start_ym |-> a, end_ym |-> b]>>
          /\ ss_period' = <<[start_ym |-> a, end_ym |-> b]>>
    /\ StartRun("filter")
    /\ UNCHANGED <<uploaded, ss_df, ss_file_name, ss_ms, ss_chart, ss_name_search,
                   ss_code_search, w_name, w_code, clicked>>

\* the user edits one of the search text areas
UserEditSearch ==
    /\ SearchShown
    /\ \/ \E t \in NameEdits : w_name # <<t>> /\ w_name' = <<t>> /\ w_code' = w_code
       \/ \E t \in CodeEdits : w_code # <<t>> /\ w_code' = <<t>> /\ w_name' = w_name
    /\ StartRun("search")
    /\ UNCHANGED <<uploaded, ss_df, ss_file_name, ss_ms, ss_period, ss_chart, ss_name_search,
                   ss_code_search, clicked>>

\* the material-search reset button
UserClearSearch ==
    /\ SearchShown
    /\ clicked' = "clear_material_search"
    /\ StartRun("button")
    /\ UNCHANGED <<uploaded, ss_df, ss_file_name, ss_ms, ss_period, ss_chart, ss_name_search,
                   ss_code_search, w_name, w_code>>

\* the user picks the other aggregation unit
UserPickTimeUnit ==
    /\ "where" \in run.executed
    /\ \E u \in TimeUnits : ss_chart # <<u>> /\ ss_chart' = <<u>>
    /\ StartRun("chart")
    /\ UNCHANGED <<uploaded, ss_df, ss_file_name, ss_ms, ss_period, ss_name_search,
                   ss_code_search, w_name, w_code, clicked>>

(* ---- the script, top to bottom ------------------------------------ *)
\* default_start_idx = max(0, len(yearmonths_all) - 6)
DefaultMonths == 6

\* The run is over.  When it ended normally or by st.stop(), the framework
\* drops the state of every keyed widget the run did not render.
EndRun(status, r) ==
    LET sidebar == "filters" \in r.executed
        search == "search" \in r.executed
        cleanup == status \in {"done", "stopped"}
    IN /\ pc' = "idle"
       /\ run' = [r EXCEPT !.status = status]
       /\ clicked' = "none"
       /\ ss_ms' = IF cleanup
                   THEN [k \in MsKeys |-> IF sidebar /\ r.opts[k] # {} THEN ss_ms[k] ELSE <<>>]
                   ELSE ss_ms
       /\ ss_period' = IF cleanup /\ ~sidebar THEN <<>> ELSE ss_period
       /\ ss_chart' = IF cleanup /\ "where" \notin r.executed THEN <<>> ELSE ss_chart
       /\ w_name' = IF cleanup /\ ~search THEN <<>> ELSE w_name
       /\ w_code' = IF cleanup /\ ~search THEN <<>> ELSE w_code

\* st.rerun(): the script starts again from the top at once; the run it ends
\* counts as finished, so the widgets that run did not reach lose their state
Rerun ==
    /\ pc' = "upload"
    /\ run' = NewRun("st.rerun")
    /\ clicked' = "none"

\* a variant of the upload branch that never stores the file name
UploadHandler_nostore ==
    /\ pc = "upload"
    /\ IF uploaded = <<>>
       THEN /\ EndRun("done", run)
            /\ UNCHANGED <<ss_df, ss_file_name>>
       ELSE IF ss_file_name # <<uploaded[1].name>>
       THEN LET res == load_csv(uploaded[1].data)
            IN IF res.status = "ok"
               THEN /\ ss_df' = <<res.df>>
                    /\ ss_file_name' = ss_file_name
                    /\ pc' = "sidebar"
                    /\ run' = [run EXCEPT !.loaded = TRUE]
                    /\ UNCHANGED <<ss_ms, ss_period, ss_chart, w_name, w_code, clicked>>
               ELSE /\ EndRun(IF res.status = "stop" THEN "stopped" ELSE "error", run)
                    /\ UNCHANGED <<ss_df, ss_file_name>>
       ELSE /\ pc' = "sidebar"
            /\ UNCHANGED <<ss_df, ss_file_name, run, ss_ms, ss_period, ss_chart, w_name, w_code, clicked>>
    /\ UNCHANGED <<call, uploaded, ss_name_search, ss_code_search, events>>

\* if uploaded_file: ... load_csv ... else: df = None
UploadHandler ==
    /\ pc = "upload"
    /\ IF uploaded = <<>>
       THEN /\ EndRun("done", run)
            /\ UNCHANGED <<ss_df, ss_file_name>>
       ELSE IF ss_file_name # <<uploaded[1].name>>
       THEN LET res == load_csv(uploaded[1].data)
            IN IF res.status = "ok"
               THEN /\ ss_df' = <<res.df>>
                    /\ ss_file_name' = <<uploaded[1].name>>
                    /\ pc' = "sidebar"
                    /\ run' = [run EXCEPT !.loaded = TRUE]
                    /\ UNCHANGED <<ss_ms, ss_period, ss_chart, w_name, w_code, clicked>>
               ELSE /\ EndRun(IF res.status = "stop" THEN "stopped" ELSE "error", run)
                    /\ UNCHANGED <<ss_df, ss_file_name>>
       ELSE /\ pc' = "sidebar"
            /\ UNCHANGED <<ss_df, ss_file_name, run, ss_ms, ss_period, ss_chart, w_name, w_code, clicked>>
    /\ UNCHANGED <<call, uploaded, ss_name_search, ss_code_search, events>>

\* the value of a keyed select box: what the widget holds when that is one of
\* the options, the default otherwise
PeriodStart(yms) ==
    IF ss_period # <<>> /\ ss_period[1].start_ym \in Range(yms) THEN ss_period[1].start_ym
    ELSE yms[IF Len(yms) - DefaultMonths > 0 THEN Len(yms) - DefaultMonths + 1 ELSE 1]
PeriodEnd(yms) ==
    IF ss_period # <<>> /\ ss_period[1].end_ym \in Range(yms) THEN ss_period[1].end_ym
    ELSE yms[Len(yms)]

\* The sidebar: the search globals are initialised, the filter options are
\* computed, the period and the multiselects are read, the reset button acts:
\* it deletes the _ms keys and reruns before the chart selectors and the text
\* areas are reached.
Sidebar ==
    /\ pc = "sidebar"
    /\ LET df == TheDf
           opts == Options(df)
           yms == yearmonths_all(df)
           stored == [k \in MsKeys |-> IF ss_ms[k] = <<>> THEN opts[k] ELSE ss_ms[k][1]]
           foreign == \E k \in MsKeys : opts[k] # {} /\ ~(stored[k] \subseteq opts[k])
           sel == [k \in MsKeys |-> IF opts[k] # {} THEN stored[k] ELSE {}]
           r == [run EXCEPT !.executed = @ \cup {"filters"}, !.opts = opts, !.yms_all = yms]
       IN IF NRows(df) = 0
          THEN /\ EndRun("done", run)
               /\ UNCHANGED <<ss_name_search, ss_code_search>>
          ELSE /\ ss_name_search' = IF ss_name_search = <<>> THEN << <<>> >> ELSE ss_name_search
               /\ ss_code_search' = IF ss_code_search = <<>> THEN << <<>> >> ELSE ss_code_search
               /\ IF yms = <<>> \/ foreign
                  THEN EndRun("error", r)
                  ELSE IF clicked = "clear_all_filters"
                  THEN /\ ss_ms' = [k \in MsKeys |-> <<>>]
                       /\ pc' = "upload"
                       /\ run' = NewRun("clear_all_filters")
                       /\ clicked' = "none"
                       /\ ss_chart' = <<>>
                       /\ w_name' = <<>>
                       /\ w_code' = <<>>
                       /\ UNCHANGED ss_period
                  ELSE /\ ss_ms' = [k \in MsKeys |-> IF opts[k] # {} THEN <<stored[k]>>
                                                     ELSE ss_ms[k]]
                       /\ ss_period' = <<[start_ym |-> PeriodStart(yms),
                                          end_ym |-> PeriodEnd(yms)]>>
                       /\ run' = [r EXCEPT !.sel = sel,
                                    !.yms = sel_yearmonths(yms, PeriodStart(yms), PeriodEnd(yms))]
                       /\ pc' = "where"
                       /\ UNCHANGED <<ss_chart, w_name, w_code, clicked>>
    /\ UNCHANGED <<call, uploaded, ss_df, ss_file_name, events>>

\* a keyed select box shows what the widget holds, or its first option
TimeUnitValue == IF ss_chart = <<>> THEN "wolbyeol" ELSE ss_chart[1]

\* clauses and where_sql, then the chart selectors
BuildWhere ==
    /\ pc = "where"
    /\ ss_chart' = <<TimeUnitValue>>
    /\ run' = [run EXCEPT !.executed = @ \cup {"where"},
                 !.clauses = BuildClauses(TheDf, run.opts, run.sel, run.yms,
                                          ss_name_search[1], ss_code_search[1])]
    /\ pc' = "trend"
    /\ UNCHANGED <<call, uploaded, ss_df, ss_file_name, ss_ms, ss_period, ss_name_search,
                   ss_code_search, w_name, w_code, clicked, events>>

\* what the page does from the trend query to the supplier summary, with the
\* selectors at their defaults (amount, no grouping, monthly, actual values):
\* the steps done, in marks: "no_data" for the time_df.empty branch, "chart"
\* for the else branch, "summary" for the supplier summary; raised when the
\* summary query names a column the table lacks
PageBelowTrend(df, opts, rows) ==
    LET shown == IF rows = {} THEN {"trend", "no_data"} ELSE {"trend", "chart"}
    IN IF opts["sp"] = {} THEN [raised |-> FALSE, marks |-> shown]
       ELSE IF \A c \in SummaryColumns : HasCol(df, c)
       THEN [raised |-> FALSE, marks |-> shown \cup {"summary"}]
       ELSE [raised |-> TRUE, marks |-> shown]

\* a variant that goes through the else branch whatever the query returned
TrendQuery_chart_always ==
    /\ pc = "trend"
    /\ IF /\ \A i \in 1..Len(run.clauses) : ClauseValid(TheDf, run.clauses[i])
          /\ HasCol(TheDf, col_songjanggeumaek)
       THEN /\ run' = [run EXCEPT !.executed = @ \cup {"trend", "chart", "summary"},
                         !.time_rows = MatchingRows(TheDf, run.clauses)]
            /\ pc' = "search"
            /\ UNCHANGED <<ss_ms, ss_period, ss_chart, w_name, w_code, clicked>>
       ELSE EndRun("error", [run EXCEPT !.executed = @ \cup {"trend"}])
    /\ UNCHANGED <<call, uploaded, ss_df, ss_file_name, ss_name_search, ss_code_search, events>>

\* time_df = con.execute(sql_query).fetchdf(), with the default metric, the
\* time_df.empty branch or the charts, and the supplier summary; the engine
\* raises when a statement names a column the table lacks
TrendQuery ==
    /\ pc = "trend"
    /\ IF /\ \A i \in 1..Len(run.clauses) : ClauseValid(TheDf, run.clauses[i])
          /\ HasCol(TheDf, col_songjanggeumaek)
       THEN LET rows == MatchingRows(TheDf, run.clauses)
                page == PageBelowTrend(TheDf, run.opts, rows)
                r == [run EXCEPT !.executed = @ \cup page.marks, !.time_rows = rows]
            IN IF page.raised
               THEN EndRun("error", r)
               ELSE /\ run' = r
                    /\ pc' = "search"
                    /\ UNCHANGED <<ss_ms, ss_period, ss_chart, w_name, w_code, clicked>>
       ELSE EndRun("error", [run EXCEPT !.executed = @ \cup {"trend"}])
    /\ UNCHANGED <<call, uploaded, ss_df, ss_file_name, ss_name_search, ss_code_search, events>>

\* a keyed text area shows what the widget holds, or value= when it holds nothing
TextAreaValue(w, value) == IF w = <<>> THEN value ELSE w[1]

\* Whether a keyed text area keeps what it holds when its value= argument
\* changes depends on the framework build: one that identifies the widget by
\* its key keeps it, one that identifies it by all its arguments starts a new
\* widget.  value= changes without the text area holding the same text only
\* when the reset button empties the globals, so the choice is made there.

\* a variant of the search update that reruns without storing the text
SearchSection_nostore ==
    /\ pc = "search"
    /\ LET material_name_patt == TextAreaValue(w_name, ss_name_search[1])
           material_code_patt == TextAreaValue(w_code, ss_code_search[1])
           r == [run EXCEPT !.executed = @ \cup {"search"}]
       IN IF clicked = "clear_material_search"
          THEN /\ ss_name_search' = << <<>> >>
               /\ ss_code_search' = << <<>> >>
               /\ \E kept \in BOOLEAN :
                     /\ w_name' = IF kept THEN <<material_name_patt>> ELSE <<>>
                     /\ w_code' = IF kept THEN <<material_code_patt>> ELSE <<>>
               /\ pc' = "upload"
               /\ run' = NewRun("clear_material_search")
               /\ clicked' = "none"
               /\ UNCHANGED <<ss_ms, ss_period, ss_chart>>
          ELSE IF material_name_patt # ss_name_search[1]
                  \/ material_code_patt # ss_code_search[1]
          THEN /\ w_name' = <<material_name_patt>>
               /\ w_code' = <<material_code_patt>>
               /\ Rerun
               /\ UNCHANGED <<ss_name_search, ss_code_search, ss_ms, ss_period, ss_chart>>
          ELSE /\ pc' = "idle"
               /\ run' = [r EXCEPT !.status = "done"]
               /\ clicked' = "none"
               /\ w_name' = <<material_name_patt>>
               /\ w_code' = <<material_code_patt>>
               /\ ss_ms' = [k \in MsKeys |-> IF r.opts[k] # {} THEN ss_ms[k] ELSE <<>>]
               /\ UNCHANGED <<ss_name_search, ss_code_search, ss_period, ss_chart>>
    /\ UNCHANGED <<call, uploaded, ss_df, ss_file_name, events>>

\* The material search section: the two text areas, the reset button, then
\* the session_state update, which reruns the script when a text area differs
\* from its global.
SearchSection ==
    /\ pc = "search"
    /\ LET material_name_patt == TextAreaValue(w_name, ss_name_search[1])
           material_code_patt == TextAreaValue(w_code, ss_code_search[1])
           r == [run EXCEPT !.executed = @ \cup {"search"}]
       IN IF clicked = "clear_material_search"
          THEN /\ ss_name_search' = << <<>> >>
               /\ ss_code_search' = << <<>> >>
               /\ \E kept \in BOOLEAN :
                     /\ w_name' = IF kept THEN <<material_name_patt>> ELSE <<>>
                     /\ w_code' = IF kept THEN <<material_code_patt>> ELSE <<>>
               /\ pc' = "upload"
               /\ run' = NewRun("clear_material_search")
               /\ clicked' = "none"
               /\ UNCHANGED <<ss_ms, ss_period, ss_chart>>
          ELSE IF material_name_patt # ss_name_search[1]
          THEN /\ ss_name_search' = <<material_name_patt>>
               /\ w_name' = <<material_name_patt>>
               /\ w_code' = <<material_code_patt>>
               /\ Rerun
               /\ UNCHANGED <<ss_code_search, ss_ms, ss_period, ss_chart>>
          ELSE IF material_code_patt # ss_code_search[1]
          THEN /\ ss_code_search' = <<material_code_patt>>
               /\ w_name' = <<material_name_patt>>
               /\ w_code' = <<material_code_patt>>
               /\ Rerun
               /\ UNCHANGED <<ss_name_search, ss_ms, ss_period, ss_chart>>
          ELSE /\ pc' = "idle"
               /\ run' = [r EXCEPT !.status = "done"]
               /\ clicked' = "none"
               /\ w_name' = <<material_name_patt>>
               /\ w_code' = <<material_code_patt>>
               /\ ss_ms' = [k \in MsKeys |-> IF r.opts[k] # {} THEN ss_ms[k] ELSE <<>>]
               /\ UNCHANGED <<ss_name_search, ss_code_search, ss_period, ss_chart>>
    /\ UNCHANGED <<call, uploaded, ss_df, ss_file_name, events>>

(* ---- calls of the text functions --------------------------------- *)
InitStr == AppInit /\ call \in {Input(t) : t \in Texts(StrAlphabet, MaxLen)}
InitPattern == AppInit /\ call \in {Input(t) : t \in Texts(PatAlphabet, MaxLen)}
InitSearch == AppInit /\ call \in {Input(t) : t \in Texts(SearchAlphabet, MaxLen)}

Call_sql_list_str ==
    /\ call.op = "input"
    /\ \E pre \in {<<>>} \cup {<<o>> : o \in OtherTexts} \cup {<<NoneValue>>} :
         LET vals == pre \o call.args
         IN call' = [op |-> "sql_list_str", args |-> vals, res |-> sql_list_str(vals)]
    /\ UNCHANGED appvars

Call_enhance_pattern ==
    /\ call.op = "input"
    /\ call' = [op |-> "enhance_pattern", args |-> call.args,
                res |-> enhance_pattern(call.args[1])]
    /\ UNCHANGED appvars

Call_material_search_conditions ==
    /\ call.op = "input"
    /\ \E o \in OtherTexts : \E a \in {<<call.args[1], o>>, <<o, call.args[1]>>} :
         call' = [op |-> "material_search_conditions", args |-> a,
                  res |-> material_search_conditions(a[1], a[2])]
    /\ UNCHANGED appvars

Call_search_conditions ==
    /\ call.op = "input"
    /\ \E o \in OtherTexts : \E a \in {<<call.args[1], o>>, <<o, call.args[1]>>} :
         call' = [op |-> "search_conditions", args |-> a,
                  res |-> search_conditions(a[1], a[2])]
    /\ UNCHANGED appvars

(* ---- calls of load_csv and its parts ------------------------------ *)
\* longest supplier code text drawn for clean_supplier_code
MaxCodeLen == 4

CodeAlphabet == {"1", "0", ".", "A"}

\* what read_csv can give one column: never a number beside a text
WellTyped(cells) ==
    ~(\E i \in 1..Len(cells) : cells[i].t = "num" /\ \E j \in 1..Len(cells) : cells[j].t = "str")

\* the columns of two cells over a set of cells
ColumnsOver(S) == {c \in [1..2 -> S] : WellTyped(c)}

\* raw closing-month cells: serials, an empty cell, calendar texts, an
\* unreadable text, and a serial read as text (beside a text in its column)
DateCells ==
    {Num(0), Num(1), Num(45292), NA,
     Str(<<"2", "0", "2", "4", "-", "0", "1", "-", "1", "5">>),
     Str(<<"1", "8", "9", "9", "-", "1", "2", "-", "3", "1">>),
     Str(<<"x", "1">>), Str(<<"4", "5", "2", "9", "2">>)}

\* raw cells of a numeric field
NumberCells == {Num(5), Num(-1), NA, Str(<<"x">>), Str(<<"7">>), Str(<<"-", "3">>)}

\* raw cells of the supplier code and the supplier name
SupplierCodeCells == {Num(11), NA, Str(<<"A", ".", "0">>), Str(<<"0">>)}
SupplierNameCells == {Str(<<"A", "b">>), Str(<<SPACE, "A", "b", SPACE>>), NA, Str(<<SPACE>>)}

\* a table of two records from its columns (name, cells)
TableOf(names, cols) ==
    [columns |-> names,
     rows |-> [r \in 1..2 |-> [k \in 1..Len(names) |-> cols[k][r]]]]

DateTables ==
    {TableOf(<<col_magamwol, col_songjanggeumaek>>, <<d, <<Num(1), Num(2)>>>>) :
        d \in ColumnsOver(DateCells)}

NumberTables ==
    {TableOf(<<col_magamwol, num_cols[k]>>, <<<<Num(45292), Num(45293)>>, c>>) :
        k \in 1..Len(num_cols), c \in ColumnsOver(NumberCells)}

SupplierTables ==
    {TableOf(<<col_magamwol, col_gonggeupeopchekodeu, col_gonggeupeopchemyeong>>,
             <<<<Num(45292), Num(45293)>>, c, n>>) :
        c \in ColumnsOver(SupplierCodeCells), n \in ColumnsOver(SupplierNameCells)}
    \cup
    {TableOf(<<col_magamwol, col_gonggeupeopchemyeong>>, <<<<Num(45292), Num(45293)>>, n>>) :
        n \in ColumnsOver(SupplierNameCells)}
    \cup
    {TableOf(<<col_magamwol, col_gonggeupeopchekodeu>>, <<<<Num(45292), Num(45293)>>, c>>) :
        c \in ColumnsOver(SupplierCodeCells)}

InitLoad ==
    AppInit /\ call \in {Input(t) : t \in DateTables \cup NumberTables \cup SupplierTables}

Call_load_csv ==
    /\ call.op = "input"
    /\ call' = [op |-> "load_csv", args |-> call.args, res |-> <<load_csv(call.args[1])>>]
    /\ UNCHANGED appvars

InitCode == AppInit /\ call \in {Input(t) : t \in Texts(CodeAlphabet, MaxCodeLen)}

\* df["gonggeupeopchekodeu"].apply(clean_supplier_code) on a text cell
Call_clean_supplier_code ==
    /\ call.op = "input"
    /\ call' = [op |-> "clean_supplier_code", args |-> call.args,
                res |-> clean_supplier_code(FALSE, call.args[1])]
    /\ UNCHANGED appvars

(* ------------------------------------------------------------------ *)
(* calls of _standardize_columns                                       *)
(* ------------------------------------------------------------------ *)
\* header texts as read_csv hands them over
RawHeaders ==
    {<<"eop", "che", "myeong">>,
     <<SPACE, "eop", "che", SPACE, "myeong", SPACE>>,
     <<"(", "eop", "che", "myeong", ")">>,
     <<"(", TAB, "eop", "che", "myeong", ")">>,
     <<"eop", "che", "myeong", ".">>,
     <<"eop", "che", TAB, "myeong">>,
     <<"eop", "che", "myeong", "ching">>,
     col_gonggeupeopchemyeong,
     <<"bam", "deo", "myeong">>,
     <<"gong", "geup", "eop", "che">>,
     <<"gu", "mae", "geu", "rup", "myeong">>,
     <<"gu", "mae", "geu", "rup", "ko", "deu">>,
     col_magamwol}

\* columns of one table drawn for _standardize_columns
HeaderCols == 3

\* tables of HeaderCols columns with different raw headers; the cell of
\* record r in column i is the number 10 * i + r
HeaderTables ==
    {[columns |-> h, rows |-> [r \in 1..2 |-> [i \in 1..HeaderCols |-> Num(10 * i + r)]]] :
        h \in {g \in [1..HeaderCols -> RawHeaders] : \A i, j \in 1..HeaderCols : i # j => g[i] # g[j]}}

InitHeader == AppInit /\ call \in {Input(t) : t \in HeaderTables}

\* df = _standardize_columns(df)
Call__standardize_columns ==
    /\ call.op = "input"
    /\ call' = [op |-> "_standardize_columns", args |-> call.args,
                res |-> <<_standardize_columns(call.args[1])>>]
    /\ UNCHANGED appvars

(* ------------------------------------------------------------------ *)
(* calls of the trend query                                            *)
(* ------------------------------------------------------------------ *)
\* invoice lines: closing month (2024-01-01, 2024-01-09, 2024-02-01,
\* 2025-01-01), plant, supplier name, part, category, KPI category, quantity,
\* amount
TrendLines ==
    {<<Num(45292), Num(1000), Str(<<"A", "b">>), Str(<<"A">>), Str(<<"K">>), Str(<<"Q">>),
       Num(500), Num(1000000)>>,
     <<Num(45300), Num(1000), Str(<<"A", "b">>), Str(<<"B">>), Str(<<"K">>), Str(<<"R">>),
       Num(1500), Num(2500000)>>,
     <<Num(45323), Num(2000), Str(<<"B">>), Str(<<"A">>), Str(<<"K">>), Str(<<"Q">>),
       Num(250), Num(500000)>>,
     <<Num(45658), Num(1000), Str(<<"B">>), NA, Str(<<"K">>), Str(<<"Q">>),
       Num(1000), Num(3000000)>>}

TrendHeader ==
    <<col_magamwol, col_peulraenteu, col_gonggeupeopchemyeong, col_pateu, col_kategori,
      col_kpi, col_songjangsuryang, col_songjanggeumaek>>

\* a file of one invoice line: closing month 45292, amount, quantity,
\* supplier name (header eopchemyeong) Acme
AcmeFile ==
    [columns |-> <<col_magamwol, col_songjanggeumaek, col_songjangsuryang,
                   <<"eop", "che", "myeong">>>>,
     rows |-> << <<Num(45292), Num(1000000), Num(500), Str(<<"A", "c", "m", "e">>)>> >>]

\* records of one table drawn for the trend query
TrendRecords == 3

\* a table without the columns at the positions drop
Dropping(df, drop) ==
    LET keep == SelectSeq([i \in 1..Len(df.columns) |-> i], LAMBDA i : i \notin drop)
    IN [columns |-> [k \in 1..Len(keep) |-> df.columns[keep[k]]],
        rows |-> [r \in 1..Len(df.rows) |-> [k \in 1..Len(keep) |-> df.rows[r][keep[k]]]]]

\* the loaded tables: every list of TrendRecords lines, and the first of
\* them without its part column, its quantity column, or both optional
\* text columns of the extension
TrendTables ==
    LET raw == {[columns |-> TrendHeader, rows |-> rows] :
                   rows \in [1..TrendRecords -> TrendLines]}
        one == CHOOSE t \in raw : \A r \in 1..TrendRecords :
                   t.rows[r] = <<Num(45292), Num(1000), Str(<<"A", "b">>), Str(<<"A">>),
                                 Str(<<"K">>), Str(<<"Q">>), Num(500), Num(1000000)>>
    IN {load_csv(t).df : t \in raw \cup {Dropping(one, {4}), Dropping(one, {7}),
                                          Dropping(one, {5, 6}), AcmeFile}}

\* the year-months selected in the sidebar: all of the table's, or all but
\* the first
TrendPeriods(df) ==
    {yearmonths_all(df)} \cup
    (IF Len(yearmonths_all(df)) > 1 THEN {Tail(yearmonths_all(df))} ELSE {})

\* the predicates of the calls: the year-month clause alone, or every clause
\* of the page in its default state (every multiselect full, no search)
TrendPredicates(df) ==
    {<<YmClause(yms)>> : yms \in TrendPeriods(df)} \cup
    {BuildClauses(df, Options(df), Options(df), yearmonths_all(df), <<>>, <<>>)}

InitTrend ==
    /\ AppInit
    /\ \E df \in TrendTables : \E cl \in TrendPredicates(df) :
          \E m \in MetricOptions : \E g \in GroupOptions : \E t \in TimeUnits :
             call = [op |-> "input", args |-> <<df, cl, m, g, t>>, res |-> <<>>]

\* time_df = con.execute(sql_query).fetchdf()
Call_sql_query ==
    /\ call.op = "input"
    /\ call' = [op |-> "sql_query", args |-> call.args,
                res |-> <<sql_query(call.args[1], call.args[2], call.args[3],
                                    call.args[4], call.args[5])>>]
    /\ UNCHANGED appvars

(* ------------------------------------------------------------------ *)
(* calls of the three queries of one page                              *)
(* ------------------------------------------------------------------ *)
\* invoice lines: closing month (2024-01-01, 2024-02-01), plant,
\* purchasing group, supplier name, material code, material name, quantity,
\* amount, unit price
QueryLines ==
    {<<Num(45292), Num(1000), Num(10), Str(<<"A", "b">>), Num(11), Str(<<"a", "A">>),
       Num(500), Num(1000000), Num(2000)>>,
     <<Num(45292), Num(2000), Num(10), Str(<<"B">>), Num(12), Str(<<"b", "1">>),
       Num(1500), Num(2500000), Num(3)>>,
     <<Num(45323), Num(1000), Num(20), Str(<<"A", "b">>), Num(21), Str(<<"a">>),
       Num(250), Num(500000), Num(1)>>}

QueryHeader ==
    <<col_magamwol, col_peulraenteu, col_gumaegeurup, col_gonggeupeopchemyeong, col_jajae,
      col_jajaemyeong, col_songjangsuryang, col_songjanggeumaek, col_danga>>

\* records of one table drawn for the page's queries
QueryRecords == 2

\* the loaded tables: every list of QueryRecords lines, and these without
\* the unit-price column
QueryTables ==
    LET raw == {[columns |-> QueryHeader, rows |-> rows] :
                   rows \in [1..QueryRecords -> QueryLines]}
    IN {load_csv(t).df : t \in raw \cup {Dropping(t, {9}) : t \in raw}}

\* the text of the two search globals
QueryNames == {<<>>, <<"a">>, <<"b">>}
QueryCodes == {<<>>, <<"1", "1">>}

\* a page: the table, the multiselect selections (the plants narrowed to any
\* subset), the two search globals, the year-month picked for the raw data
InitQueries ==
    /\ AppInit
    /\ \E df \in QueryTables : \E S \in SUBSET plants_all(df) :
          \E n \in QueryNames : \E c \in QueryCodes : \E q \in Range(yearmonths_all(df)) :
             call = [op |-> "input",
                     args |-> <<df, [Options(df) EXCEPT !["pl"] = S], n, c, q>>,
                     res |-> <<>>]

\* where_sql, then the three con.execute calls of one run in which the
\* raw-data button is pressed
Call_page_queries ==
    /\ call.op = "input"
    /\ LET df == call.args[1]
           opts == Options(df)
           sel == call.args[2]
           clauses == BuildClauses(df, opts, sel, yearmonths_all(df), call.args[3], call.args[4])
       IN call' = [op |-> "page_queries", args |-> call.args,
                   res |-> <<[time_df |-> time_df(df, clauses),
                              raw_df |-> raw_data_query(df, opts, sel, <<call.args[5]>>),
                              sup_df |-> sup_df(df, opts, clauses)]>>]
    /\ UNCHANGED appvars

(* ------------------------------------------------------------------ *)
(* calls of the share step                                             *)
(* ------------------------------------------------------------------ *)
\* most rows of a trend result
PctRecords == 2

\* values of a metric column
PctValues == {0, 1, 3}

\* the metric columns of the trend result for a metric option
PctMetricCols(metric_option) ==
    IF metric_option = "songjanggeumaek" THEN <<pct_amount>>
    ELSE IF metric_option = "songjangsuryang" THEN <<pct_quantity>>
    ELSE <<pct_amount, pct_quantity>>

\* rows of a trend result: one per time point and group, in ORDER BY order
PctKeys == {<<t, g>> : t \in 1..2, g \in 1..2}
KeyBefore(a, b) == a[1] < b[1] \/ (a[1] = b[1] /\ a[2] < b[2])
PctKeyLists ==
    {ks \in UNION {[1..n -> PctKeys] : n \in 1..PctRecords} :
        \A i \in 1..(Len(ks) - 1) : KeyBefore(ks[i], ks[i + 1])}

PctFrames(metric_option) ==
    LET cols == <<pct_time, pct_group>> \o PctMetricCols(metric_option)
        metrics == {cols[i] : i \in 3..Len(cols)}
    IN {[cols |-> cols,
         rows |-> [r \in 1..Len(ks) |->
                     [c \in {pct_time, pct_group} \cup metrics |->
                        IF c = pct_time THEN ks[r][1]
                        ELSE IF c = pct_group THEN ks[r][2]
                        ELSE vs[r][c]]]] :
          ks \in PctKeyLists, vs \in [1..PctRecords -> [metrics -> PctValues]]}

InitPct ==
    /\ AppInit
    /\ \E m \in MetricOptions : \E g \in {"jeonche", "peulraenteubyeol"} :
          \E d \in DisplayModes : \E df \in PctFrames(m) :
             call = [op |-> "input", args |-> <<df, d, g, m>>, res |-> <<>>]

\* the share step of one run on a trend result that is not empty
Call_percentage_step ==
    /\ call.op = "input"
    /\ call' = [op |-> "percentage_step", args |-> call.args,
                res |-> <<percentage_step(call.args[1], call.args[2], call.args[3],
                                          call.args[4])>>]
    /\ UNCHANGED appvars

(* ------------------------------------------------------------------ *)
(* Specifications                                                      *)
(* ------------------------------------------------------------------ *)
CallIdle == call = Input(<<>>)

Init == AppInit /\ CallIdle

Next ==
    \/ UserUpload
    \/ UserRemoveFile
    \/ UserRerun
    \/ UserSelect
    \/ _set_all
    \/ UserClearAllFilters
    \/ UserPickPeriod
    \/ UserEditSearch
    \/ UserClearSearch
    \/ UserPickTimeUnit
    \/ UploadHandler
    \/ Sidebar
    \/ BuildWhere
    \/ TrendQuery
    \/ SearchSection

\* the dashboard session
Spec == Init /\ [][Next]_vars

\* The script runner executes a started run statement by statement until it
\* ends, stops, raises or reruns: the script steps are never postponed for ever.
ScriptStep ==
    \/ UploadHandler
    \/ Sidebar
    \/ BuildWhere
    \/ TrendQuery
    \/ SearchSection

\* Weak fairness of the script steps, WF_vars(ScriptStep), written out: a
\* script step is enabled exactly while a run is under way (pc # "idle"), so
\* a run that stays under way for ever keeps taking script steps.
RunsCarriedThrough == <>[](pc # "idle") => []<><<ScriptStep>>_vars

\* the dashboard session, its runs carried through
SpecLive == Init /\ [][Next]_vars /\ RunsCarriedThrough

\* calls of sql_list_str
NextStr == Call_sql_list_str
SpecStr == InitStr /\ [][NextStr]_vars

\* calls of enhance_pattern
NextPattern == Call_enhance_pattern
SpecPattern == InitPattern /\ [][NextPattern]_vars

\* calls of the two search condition builders
NextSearch ==
    \/ Call_material_search_conditions
    \/ Call_search_conditions
SpecSearch == InitSearch /\ [][NextSearch]_vars

\* calls of load_csv
NextLoad == Call_load_csv
SpecLoad == InitLoad /\ [][NextLoad]_vars

\* calls of clean_supplier_code
NextCode == Call_clean_supplier_code
SpecCode == InitCode /\ [][NextCode]_vars

\* calls of _standardize_columns
NextHeader == Call__standardize_columns
SpecHeader == InitHeader /\ [][NextHeader]_vars

\* calls of the trend query
NextTrend == Call_sql_query
SpecTrend == InitTrend /\ [][NextTrend]_vars

\* pages and their three queries
NextQueries == Call_page_queries
SpecQueries == InitQueries /\ [][NextQueries]_vars

\* calls of the share step
NextPct == Call_percentage_step
SpecPct == InitPct /\ [][NextPct]_vars

(* ------------------------------------------------------------------ *)
(* Properties of the filter clauses                                    *)
(* ------------------------------------------------------------------ *)
\* the pieces of s between the characters of Seps, found by position
Pieces(s, Seps) ==
    LET cuts == SortInts({0, Len(s) + 1} \cup {i \in 1..Len(s) : s[i] \in Seps})
    IN [j \in 1..(Len(cuts) - 1) |-> SubSeq(s, cuts[j] + 1, cuts[j + 1] - 1)]

NonBlank(x) == Strip(x) # <<>>
NonEmpty(x) == x # <<>>

\* the non-blank pieces, each without its surrounding whitespace
Terms(s, Seps) ==
    LET kept == SelectSeq(Pieces(s, Seps), NonBlank)
    IN [i \in 1..Len(kept) |-> Strip(kept[i])]

\* the maximal runs of non-whitespace characters
Tokens(s) == SelectSeq(Pieces(s, Whitespace), NonEmpty)

HasWhitespace(s) == \E i \in 1..Len(s) : s[i] \in Whitespace

\* the text the engine reads when res is written between quotes
Unquoted(res) == SqlReadStrList(<<QUOTE>> \o res \o <<QUOTE>>)

\* the clauses of the run's WHERE text that filter the column of multiselect k
ClausesOf(k) ==
    {i \in 1..Len(run.clauses) :
        run.clauses[i].kind \in {"in_num", "in_str"} /\ run.clauses[i].col = MsColumn(TheDf, k)}

\* C1: for the plant and the purchasing-group filter, the membership clause
\* built with sql_list_num matches exactly the rows whose field value is in
\* the selected set S; with S empty it matches no row of the loaded table.
C1_NumericClauseMatchesSelection ==
    ("where" \in run.executed) =>
        \A k \in {"pl", "gr"} : \A i \in ClausesOf(k) : \A r \in 1..NRows(TheDf) :
            EvalClause(TheDf, r, run.clauses[i])
                <=> (Cell(TheDf, r, MsColumn(TheDf, k)).n \in run.sel[k])

\* C1, the failing case: the plant selection is empty and the clause built
\* for it still matches a row of the table
C1_EmptySelectionMatchesRow ==
    /\ "where" \in run.executed
    /\ run.opts["pl"] # {} /\ run.sel["pl"] = {}
    /\ \E i \in ClausesOf("pl") : \E r \in 1..NRows(TheDf) :
          EvalClause(TheDf, r, run.clauses[i])

\* C2: for every filter category present in the loaded table, an empty
\* multiselect makes the predicate of the trend aggregation match no rows.
C2_EmptyMultiselectMatchesNothing ==
    ("trend" \in run.executed /\ \E k \in MsKeys : run.opts[k] # {} /\ run.sel[k] = {})
        => run.time_rows = {}

\* C2, the failing case: the part multiselect is empty, every other one is
\* full, and the trend query still returns rows
C2_EmptyPartSelectionKeepsRows ==
    /\ "trend" \in run.executed
    /\ run.opts["pt"] # {} /\ run.sel["pt"] = {}
    /\ \A k \in MsKeys \ {"pt"} : run.sel[k] = run.opts[k]
    /\ ClausesOf("pt") = {}
    /\ run.time_rows # {}

\* C3: for a string value containing a single quote, the literal produced by
\* sql_list_str reads back (a doubled quote is one quote) as the original
\* string, and the value cannot end the literal early.
C3_QuotedValueRoundTrips ==
    (call.op = "sql_list_str" /\ Len(call.args) = 1 /\ HasChar(call.args[1], QUOTE))
        => SqlReadStrList(call.res) = <<call.args[1]>>

\* C3, the failing case: a value with a quote and surrounding whitespace
\* reads back without the whitespace
C3_PaddedValueReadsBackStripped ==
    /\ call.op = "sql_list_str" /\ Len(call.args) = 1
    /\ HasChar(call.args[1], QUOTE)
    /\ Strip(call.args[1]) # call.args[1]
    /\ SqlReadStrList(call.res) = <<Strip(call.args[1])>>

\* C4: for a search term without * and without whitespace, the pattern built
\* by enhance_pattern matches, without regard to case, every field value that
\* contains the term and no field value that lacks it.
C4_BareTermMatchesBySubstring ==
    (/\ call.op = "enhance_pattern"
     /\ ~HasChar(call.args[1], STAR)
     /\ ~HasWhitespace(call.args[1]))
        => /\ Unquoted(call.res) # SyntaxError
           /\ Len(Unquoted(call.res)) = 1
           /\ \A v \in FieldValues :
                 ILike(v, Unquoted(call.res)[1])
                     <=> Contains(Lower(v), Lower(call.args[1]))

\* C4, the failing case: a term holding an underscore matches a field value
\* that does not contain the term
C4_UnderscoreMatchesOtherValue ==
    /\ call.op = "enhance_pattern"
    /\ ~HasChar(call.args[1], STAR) /\ ~HasWhitespace(call.args[1])
    /\ HasChar(call.args[1], UNDERSCORE)
    /\ \E v \in FieldValues :
          /\ ILike(v, Unquoted(call.res)[1])
          /\ ~Contains(Lower(v), Lower(call.args[1]))

\* the pattern with every * turned into the engine's %
StarsToPct(p) == [i \in 1..Len(p) |-> IF p[i] = STAR THEN PCT ELSE p[i]]

\* C5 (amended): the pattern enhance_pattern builds, read back from its
\* quoted form, is: the input with every * turned into % when the input has
\* a *; % + the whitespace-separated tokens joined by % + % when it has no *
\* and contains a space character; % + the input + % otherwise.
C5_PatternShape ==
    (call.op = "enhance_pattern") =>
        LET p == call.args[1]
        IN Unquoted(call.res) =
              << IF HasChar(p, STAR) THEN StarsToPct(p)
                 ELSE IF HasChar(p, SPACE)
                      THEN <<PCT>> \o Join(Tokens(p), <<PCT>>) \o <<PCT>>
                 ELSE <<PCT>> \o p \o <<PCT>> >>

\* C5 (as stated): the same, with the tokens taken whenever the input has no
\* * and contains any whitespace character.
C5_PatternShapeAnyWhitespace ==
    (call.op = "enhance_pattern") =>
        LET p == call.args[1]
        IN Unquoted(call.res) =
              << IF HasChar(p, STAR) THEN StarsToPct(p)
                 ELSE IF HasWhitespace(p)
                      THEN <<PCT>> \o Join(Tokens(p), <<PCT>>) \o <<PCT>>
                 ELSE <<PCT>> \o p \o <<PCT>> >>

\* C5, its case: two tokens separated by a tab, no space and no *: the
\* input is wrapped whole
C5_TabSeparatedWrappedWhole ==
    /\ call.op = "enhance_pattern"
    /\ ~HasChar(call.args[1], STAR) /\ ~HasChar(call.args[1], SPACE)
    /\ HasChar(call.args[1], TAB)
    /\ Len(Tokens(call.args[1])) = 2
    /\ call.res = <<PCT>> \o call.args[1] \o <<PCT>>

(* ------------------------------------------------------------------ *)
(* Properties of the material search conditions                        *)
(* ------------------------------------------------------------------ *)
\* the separators of the two search inputs
NameSeps == {COMMA, NEWLINE, SEMI}
CodeSeps == {COMMA, NEWLINE, SEMI, TAB}

\* rows the conditions are evaluated on: material name and material code
SearchRows ==
    {[jajaemyeong |-> n, jajae |-> c] :
        n \in {<<>>, <<"a">>, <<"1">>, <<"A", "1">>},
        c \in {<<>>, <<"a">>, <<"1">>, <<"1", "1">>, <<"a", "1">>}}

\* one group of OR-ed comparisons per input that has terms, the name group first
GroupsOf(nt, ct) ==
    (IF nt # <<>> THEN <<name_patterns(nt)>> ELSE <<>>)
    \o (IF ct # <<>> THEN <<code_patterns(ct)>> ELSE <<>>)

\* a row passes when it passes some comparison of every input that has terms
PassesTerms(nt, ct, row) ==
    /\ nt = <<>> \/ \E i \in 1..Len(nt) : EvalCmp(name_patterns(nt)[i], row)
    /\ ct = <<>> \/ \E i \in 1..Len(ct) : EvalCmp(code_patterns(ct)[i], row)

IsSearchCall == call.op \in {"material_search_conditions", "search_conditions"}

\* C6 (amended): the material-name input is split on comma, newline and
\* semicolon, the material-code input on comma, newline, semicolon and tab,
\* into non-empty terms; the comparisons of one input are OR-combined, and
\* the name and the code conditions are AND-combined when both have terms.
C6_TermsSplitAndCombined ==
    IsSearchCall =>
        LET nt == Terms(call.args[1], NameSeps)
            ct == Terms(call.args[2], CodeSeps)
        IN /\ call.res = GroupsOf(nt, ct)
           /\ \A row \in SearchRows :
                 EvalConditions(call.res, row) <=> PassesTerms(nt, ct, row)

\* C6 (as stated): both inputs are split on comma, newline, tab and semicolon.
C6_BothInputsSplitOnTab ==
    IsSearchCall =>
        LET nt == Terms(call.args[1], CodeSeps)
            ct == Terms(call.args[2], CodeSeps)
        IN /\ call.res = GroupsOf(nt, ct)
           /\ \A row \in SearchRows :
                 EvalConditions(call.res, row) <=> PassesTerms(nt, ct, row)

\* C6, its case: a name input holding a tab gives one term, a code input
\* gives two, and both groups are present
C6_TabInsideNameTerm ==
    /\ IsSearchCall
    /\ HasChar(call.args[1], TAB)
    /\ Len(call.res) = 2
    /\ Len(call.res[1]) = 1
    /\ Len(call.res[2]) = 2

(* ------------------------------------------------------------------ *)
(* Properties of the upload branch and the session table               *)
(* ------------------------------------------------------------------ *)
\* a run has ended with the file of the uploader in place
RunEndedWithFile == pc = "idle" /\ run.status # "none" /\ uploaded # <<>>

\* C7: when the uploaded file has no closing-month column after
\* normalisation, load_csv halts the run: no filter, predicate or query step
\* executes in a run that starts with that file, and nothing is loaded.
C7_MissingColumnHaltsRun ==
    (RunEndedWithFile /\ ~HasCol(_standardize_columns(uploaded[1].data), col_magamwol))
        => /\ run.status = "stopped"
           /\ run.executed = {}
           /\ ~run.loaded

\* C7, the failing case: a run with such a file in the uploader went through
\* to the trend query, on the table of the earlier file of the same name
C7_RunProceedsOnStaleTable ==
    /\ RunEndedWithFile
    /\ ~HasCol(_standardize_columns(uploaded[1].data), col_magamwol)
    /\ ss_file_name = <<uploaded[1].name>>
    /\ run.status = "done"
    /\ "trend" \in run.executed

\* C8: after a run that starts with an uploaded file (one that loads), the
\* session table is the normalised content of that file and the stored file
\* name is its name, whatever file produced the table before.
C8_NewFileReplacesTable ==
    (RunEndedWithFile /\ load_csv(uploaded[1].data).status = "ok")
        => /\ ss_df = <<load_csv(uploaded[1].data).df>>
           /\ ss_file_name = <<uploaded[1].name>>

\* C8, the failing case: the second a.csv is in the uploader and the session
\* table is still that of the first
C8_SameNameKeepsOldTable ==
    /\ RunEndedWithFile
    /\ uploaded = <<FileA2>>
    /\ run.status = "done"
    /\ ss_file_name = <<FileA2.name>>
    /\ ss_df = <<load_csv(FileA.data).df>>

\* C9: the session table and the stored name are written only by the upload
\* branch, only when the uploaded name differs from the stored one and
\* before any filter or query step of the run; a run started by anything
\* other than an upload loads nothing.
C9_TableWrittenOnlyByUpload ==
    /\ [](run.loaded => run.trigger = "upload")
    /\ [][(ss_df' # ss_df \/ ss_file_name' # ss_file_name)
            => /\ pc = "upload"
               /\ uploaded # <<>>
               /\ ss_file_name # <<uploaded[1].name>>
               /\ run.executed = {}
               /\ ss_df' = <<load_csv(uploaded[1].data).df>>
               /\ ss_file_name' = <<uploaded[1].name>>]_vars

\* C9, its case: a run started by a filter change ran its query with the
\* uploaded name equal to the stored one and loaded nothing
C9_FilterRerunKeepsTable ==
    /\ RunEndedWithFile
    /\ run.trigger = "filter"
    /\ run.status = "done"
    /\ "trend" \in run.executed
    /\ ss_file_name = <<uploaded[1].name>>
    /\ ~run.loaded

\* a raw closing-month cell no date can be read from: empty, or a text with
\* a character that is neither a digit nor a hyphen
Unparseable(x) ==
    \/ x.t = "na"
    \/ x.t = "str" /\ \E i \in 1..Len(x.s) : x.s[i] \notin (Digits \cup {"-"})

\* C10: a record whose closing-month value cannot be parsed has a null date,
\* year and year-month, gives no entry to the selectable year-month list, and
\* satisfies the date predicate for no selectable range (so it is in no
\* trend result).
C10_UnparseableDateExcluded ==
    run.loaded =>
        LET raw == _standardize_columns(uploaded[1].data)
            df == TheDf
            yms == yearmonths_all(df)
        IN /\ \A r \in 1..NRows(df) :
                 Unparseable(Cell(raw, r, col_magamwol)) =>
                     /\ Cell(df, r, col_magamwol) = NA
                     /\ Cell(df, r, col_yeondo) = NA
                     /\ Cell(df, r, col_yeonwol) = NA
                     /\ \A a \in Range(yms) : \A b \in Range(yms) :
                           ~EvalClause(df, r, YmClause(sel_yearmonths(yms, a, b)))
                     /\ r \notin run.time_rows
           /\ \A i \in 1..Len(yms) : \E r \in 1..NRows(df) :
                 /\ ~Unparseable(Cell(raw, r, col_magamwol))
                 /\ Cell(df, r, col_magamwol).t = "date"
                 /\ YmOf(Cell(df, r, col_magamwol)) = yms[i]

\* C10, its case: a loaded file with an unreadable date text, whose trend
\* query returned the other rows
C10_UnreadableTextDateLoaded ==
    /\ run.loaded
    /\ "trend" \in run.executed
    /\ run.time_rows # {}
    /\ \E r \in 1..NRows(TheDf) :
          /\ Cell(_standardize_columns(uploaded[1].data), r, col_magamwol).t = "str"
          /\ Unparseable(Cell(_standardize_columns(uploaded[1].data), r, col_magamwol))

(* ------------------------------------------------------------------ *)
(* Properties of load_csv                                              *)
(* ------------------------------------------------------------------ *)
IsLoadCall == call.op = "load_csv" /\ call.res[1].status = "ok"
RawDf == _standardize_columns(call.args[1])
LoadedDf == call.res[1].df

NotANumber(x) ==
    \/ x.t = "na"
    \/ x.t = "str" /\ \E i \in 1..Len(x.s) : x.s[i] \notin (Digits \cup {"-"})

\* C12: after load_csv every cell of every present numeric field (invoice
\* quantity, invoice amount, unit price, plant, purchasing group) is a
\* number: a raw number keeps its value, a raw value that cannot be read as
\* a number is 0, and no cell is null.
C12_NumericFieldsAreNumbers ==
    IsLoadCall =>
        \A c \in {col_songjangsuryang, col_songjanggeumaek, col_danga, col_peulraenteu,
                  col_gumaegeurup} :
            HasCol(RawDf, c) =>
                /\ HasCol(LoadedDf, c)
                /\ \A r \in 1..NRows(LoadedDf) :
                      /\ Cell(LoadedDf, r, c).t = "num"
                      /\ (Cell(RawDf, r, c).t = "num" => Cell(LoadedDf, r, c) = Cell(RawDf, r, c))
                      /\ (NotANumber(Cell(RawDf, r, c)) => Cell(LoadedDf, r, c) = Num(0))

\* C12, its case: a plant column holding an unreadable text and an empty cell
C12_UnreadablePlantIsZero ==
    /\ IsLoadCall
    /\ HasCol(RawDf, col_peulraenteu)
    /\ Cell(RawDf, 1, col_peulraenteu) = Str(<<"x">>)
    /\ Cell(RawDf, 2, col_peulraenteu) = NA
    /\ Cell(LoadedDf, 1, col_peulraenteu) = Num(0)
    /\ Cell(LoadedDf, 2, col_peulraenteu) = Num(0)

\* the supplier name of a raw record as text, without surrounding
\* whitespace; an empty cell reads "nan"
RawNameText(r) ==
    LET x == Cell(RawDf, r, col_gonggeupeopchemyeong)
    IN IF x.t = "na" THEN <<"n", "a", "n">> ELSE Strip(x.s)

\* k zeros
Zeros(k) == [i \in 1..k |-> "0"]

\* C13 (amended): for every loaded record of a file with a supplier-name
\* column: when a supplier-code column exists, the display identifier is the
\* cleaned code, an underscore and the trimmed name if the code is not empty
\* and the name is neither empty nor "nan", the trimmed name alone if only
\* the code is empty, and empty if the name is "nan"; without a supplier-code
\* column it is the trimmed name text ("nan" for an empty cell).
C13_SupplierDisplay ==
    (IsLoadCall /\ HasCol(RawDf, col_gonggeupeopchemyeong)) =>
        \A r \in 1..NRows(LoadedDf) :
            LET name == RawNameText(r)
                shown == Cell(LoadedDf, r, col_eopchepyosi)
            IN IF HasCol(RawDf, col_gonggeupeopchekodeu)
               THEN LET code == Cell(LoadedDf, r, col_gonggeupeopchekodeu).s
                    IN shown = Str(IF name = <<"n", "a", "n">> THEN <<>>
                                   ELSE IF code # <<>> /\ name # <<>>
                                        THEN code \o <<UNDERSCORE>> \o name
                                   ELSE name)
               ELSE shown = Str(name)

\* C13 (as stated): with a supplier-code column the display identifier is
\* the code, zero-padded, followed by the trimmed name; without one it is
\* the trimmed name.
C13_ZeroPaddedCodeThenName ==
    (IsLoadCall /\ HasCol(RawDf, col_gonggeupeopchemyeong)) =>
        \A r \in 1..NRows(LoadedDf) :
            LET name == RawNameText(r)
                shown == Cell(LoadedDf, r, col_eopchepyosi)
            IN IF HasCol(RawDf, col_gonggeupeopchekodeu)
               THEN \E k \in 0..4 :
                       shown = Str(Zeros(k) \o Cell(LoadedDf, r, col_gonggeupeopchekodeu).s
                                   \o name)
               ELSE shown = Str(name)

\* C13, its case: code 11 (beside an empty code cell) and name " Ab " show
\* as 11_Ab; the record with the empty code shows its name alone
C13_CodeUnderscoreName ==
    /\ IsLoadCall
    /\ HasCol(RawDf, col_gonggeupeopchekodeu) /\ HasCol(RawDf, col_gonggeupeopchemyeong)
    /\ Cell(RawDf, 1, col_gonggeupeopchekodeu) = Num(11)
    /\ Cell(RawDf, 2, col_gonggeupeopchekodeu) = NA
    /\ Cell(RawDf, 1, col_gonggeupeopchemyeong) = Str(<<SPACE, "A", "b", SPACE>>)
    /\ Cell(RawDf, 2, col_gonggeupeopchemyeong) = Str(<<"A", "b">>)
    /\ Cell(LoadedDf, 1, col_eopchepyosi) = Str(<<"1", "1", UNDERSCORE, "A", "b">>)
    /\ Cell(LoadedDf, 2, col_eopchepyosi) = Str(<<"A", "b">>)

(* ------------------------------------------------------------------ *)
(* Properties of clean_supplier_code                                   *)
(* ------------------------------------------------------------------ *)
IsCodeCall == call.op = "clean_supplier_code"

\* a code that reads as a number: digits with at most one decimal point
NumericCode(t) ==
    /\ \A i \in 1..Len(t) : t[i] \in Digits \cup {"."}
    /\ \E i \in 1..Len(t) : t[i] \in Digits
    /\ Cardinality({i \in 1..Len(t) : t[i] = "."}) <= 1

\* C14 (as stated): clean_supplier_code returns every code that is not a
\* number exactly as it was given.
C14_NonNumericCodeUnchanged ==
    (IsCodeCall /\ call.args[1] # <<>> /\ ~NumericCode(call.args[1])) =>
        call.res = call.args[1]

\* C14, the failing case: the code A.0 is not a number and comes back as A
C14_LetterCodeLosesDotZero ==
    /\ IsCodeCall
    /\ call.args[1] = <<"A", ".", "0">>
    /\ call.res = <<"A">>

\* C15: a code made of digits followed by ".0" or by ".00" comes back as
\* exactly the digits.
C15_TrailingZerosDropped ==
    IsCodeCall =>
        \A suf \in {<<".", "0">>, <<".", "0", "0">>} :
            LET t == call.args[1]
                d == SubSeq(t, 1, Len(t) - Len(suf))
            IN (EndsWith(t, suf) /\ IsDigit(d)) => call.res = d

\* C15, its case: 1.00 has come back as 1
C15_OneDotZeroZero ==
    /\ IsCodeCall
    /\ call.args[1] = <<"1", ".", "0", "0">>
    /\ call.res = <<"1">>

(* ------------------------------------------------------------------ *)
(* Properties of _standardize_columns                                  *)
(* ------------------------------------------------------------------ *)
IsHeaderCall == call.op = "_standardize_columns"
RawHeader(i) == call.args[1].columns[i]
RawCount == Len(call.args[1].columns)
Standardized == call.res[1]

SupplierNameSynonyms ==
    {<<"eop", "che", "myeong">>, col_gonggeupeopchemyeong, <<"bam", "deo", "myeong">>}
SupplierCodeSynonyms ==
    {<<"gong", "geup", "eop", "che">>, <<"gong", "geup", "sa", "ko", "deu">>,
     col_gonggeupeopchekodeu, <<"bam", "deo", "ko", "deu">>}
GroupSynonyms == {<<"gu", "mae", "geu", "rup", "myeong">>, col_gumaegeurup}
AllSynonyms == UNION {column_mappings[k].variations : k \in 1..Len(column_mappings)}

Punctuation == {"(", ")", ".", ",", ":", "-", "_"}
Without(h, chars) == SelectSeq(h, LAMBDA c : c \notin chars)

\* a header without any whitespace and punctuation
Bare(h) == Without(h, Whitespace \cup Punctuation)

\* a header without spaces and parentheses, and without the whitespace
\* then left around it
SpacesAndParensOff(h) == Strip(Without(h, {SPACE, "(", ")"}))

\* raw column i goes by the name target afterwards
RenamedTo(i, target) ==
    /\ HasCol(Standardized, target)
    /\ Strip(RawHeader(i)) # target => ~HasCol(Standardized, Strip(RawHeader(i)))

\* C16 (amended): a raw header that equals a supplier-name synonym once its
\* spaces, its parentheses and the whitespace around it are taken off is
\* renamed to gonggeupeopchemyeong.
C16_SynonymRenamed ==
    IsHeaderCall =>
        \A i \in 1..RawCount :
            SpacesAndParensOff(RawHeader(i)) \in SupplierNameSynonyms =>
                RenamedTo(i, col_gonggeupeopchemyeong)

\* C16 (as stated): a raw header that equals a supplier-name synonym once
\* all its whitespace and punctuation is taken off is renamed to
\* gonggeupeopchemyeong.
C16_SynonymRenamedAnyPunctuation ==
    IsHeaderCall =>
        \A i \in 1..RawCount :
            Bare(RawHeader(i)) \in SupplierNameSynonyms =>
                RenamedTo(i, col_gonggeupeopchemyeong)

\* C16, its case: a synonym written with spaces, beside one in parentheses
\* around a tab, both renamed
C16_SpacedAndParenthesizedRenamed ==
    /\ IsHeaderCall
    /\ RawHeader(1) = <<SPACE, "eop", "che", SPACE, "myeong", SPACE>>
    /\ RawHeader(2) = <<"(", TAB, "eop", "che", "myeong", ")">>
    /\ RawHeader(3) = col_magamwol
    /\ Standardized.columns = <<col_gonggeupeopchemyeong, col_magamwol>>

\* C17 (amended): every field is reached by exact match only: the table has
\* a supplier-name, supplier-code or purchasing-group column afterwards
\* exactly if some raw header, spaces and parentheses off, equals one of
\* that field's synonyms, and a header that equals no synonym keeps its
\* name, also when it contains one.
C17_ExactMatchOnly ==
    IsHeaderCall =>
        /\ \A f \in {<<col_gonggeupeopchemyeong, SupplierNameSynonyms>>,
                     <<col_gonggeupeopchekodeu, SupplierCodeSynonyms>>,
                     <<col_gumaegeurup, GroupSynonyms>>} :
               HasCol(Standardized, f[1]) <=>
                   \E i \in 1..RawCount : SpacesAndParensOff(RawHeader(i)) \in f[2]
        /\ \A i \in 1..RawCount :
               SpacesAndParensOff(RawHeader(i)) \notin AllSynonyms =>
                   HasCol(Standardized, Strip(RawHeader(i)))

\* C17 (as stated): a raw header that contains a supplier-name token is
\* renamed to the supplier-name field; supplier-code and purchasing-group
\* columns come from exact synonyms only.
C17_SupplierTokenAnywhere ==
    IsHeaderCall =>
        /\ \A i \in 1..RawCount :
               (\E tok \in SupplierNameSynonyms : Contains(SpacesAndParensOff(RawHeader(i)), tok))
                   => RenamedTo(i, col_gonggeupeopchemyeong)
        /\ \A f \in {<<col_gonggeupeopchekodeu, SupplierCodeSynonyms>>,
                     <<col_gumaegeurup, GroupSynonyms>>} :
               HasCol(Standardized, f[1]) <=>
                   \E i \in 1..RawCount : SpacesAndParensOff(RawHeader(i)) \in f[2]

\* C17, its case: a header that contains the token eopchemyeong and one
\* that contains gumaegeurup keep their names; the header gonggeupeopche
\* becomes the supplier-code column
C17_ContainingHeadersKept ==
    /\ IsHeaderCall
    /\ call.args[1].columns = << <<"eop", "che", "myeong", "ching">>,
                                 <<"gu", "mae", "geu", "rup", "ko", "deu">>,
                                 <<"gong", "geup", "eop", "che">> >>
    /\ Standardized.columns = << <<"eop", "che", "myeong", "ching">>,
                                 <<"gu", "mae", "geu", "rup", "ko", "deu">>,
                                 col_gonggeupeopchekodeu >>

\* the raw columns that come to bear the name c
ResolvingTo(c) == {i \in 1..RawCount : RenamedHeader(Strip(RawHeader(i))) = c}

\* C18: after _standardize_columns no two columns bear the same name, every
\* name a raw header resolves to is there, and the column of a name is, with
\* its data, the first raw column that resolves to it.
C18_DistinctNamesFirstKept ==
    IsHeaderCall =>
        /\ \A j, k \in 1..Len(Standardized.columns) :
               j # k => Standardized.columns[j] # Standardized.columns[k]
        /\ \A i \in 1..RawCount : HasCol(Standardized, RenamedHeader(Strip(RawHeader(i))))
        /\ \A k \in 1..Len(Standardized.columns) :
               LET from == ResolvingTo(Standardized.columns[k])
               IN /\ from # {}
                  /\ LET first == CHOOSE i \in from : \A j \in from : i <= j
                     IN \A r \in 1..NRows(Standardized) :
                            Standardized.rows[r][k] = call.args[1].rows[r][first]

\* C18, its case: two synonyms of the supplier name in columns 1 and 3; one
\* column is left for them, with the data of column 1
C18_SecondSynonymDropped ==
    /\ IsHeaderCall
    /\ RawHeader(1) = <<"bam", "deo", "myeong">>
    /\ RawHeader(2) = col_magamwol
    /\ RawHeader(3) = <<"eop", "che", "myeong">>
    /\ Standardized.columns = <<col_gonggeupeopchemyeong, col_magamwol>>
    /\ Standardized.rows[1] = <<Num(11), Num(21)>>

(* ------------------------------------------------------------------ *)
(* Properties of the trend query                                       *)
(* ------------------------------------------------------------------ *)
IsTrendCall == call.op = "sql_query"
TrendDf == call.args[1]
TrendResult == call.res[1]

\* the records the predicate selects
TrendMatching == MatchingRows(TrendDf, call.args[2])

\* the time bucket of a record: its month (as YYYYMM) or its year
BucketOf(r) ==
    LET d == Cell(TrendDf, r, col_magamwol)
    IN IF call.args[5] = "wolbyeol" THEN YearOf(d) * 100 + MonthOf(d) ELSE YearOf(d)

\* the group key of a record
GroupKeyOf(r) ==
    [k \in 1..Len(group_by_sql(call.args[4])) |-> Cell(TrendDf, r, group_by_sql(call.args[4])[k])]

\* the selected records of the bucket and group of a result row
RecordsOf(row) == {r \in TrendMatching : BucketOf(r) = row.time /\ GroupKeyOf(r) = row.keys}

\* group key a before group key b
KeysLess(a, b) ==
    \E k \in 1..Len(a) : (\A j \in 1..(k - 1) : a[j] = b[j]) /\ CellLess(a[k], b[k])

\* the rows are one per bucket and group with selected records, carry the
\* sums of amount (per million) and quantity (per thousand) of these
\* records, and are ordered by bucket, then group key
TrendRowsAsSpecified ==
    LET rows == TrendResult.rows
        amount(row) == [sum |-> SumOf(TrendDf, RecordsOf(row), col_songjanggeumaek),
                        per |-> 1000000]
        quantity(row) == [sum |-> SumOf(TrendDf, RecordsOf(row), col_songjangsuryang),
                          per |-> 1000]
    IN /\ \A r \in TrendMatching :
              Cardinality({i \in 1..Len(rows) : r \in RecordsOf(rows[i])}) = 1
       /\ \A i \in 1..Len(rows) :
              /\ RecordsOf(rows[i]) # {}
              /\ rows[i].metrics =
                     (IF call.args[3] = "songjanggeumaek" THEN <<amount(rows[i])>>
                      ELSE IF call.args[3] = "songjangsuryang" THEN <<quantity(rows[i])>>
                      ELSE <<amount(rows[i]), quantity(rows[i])>>)
       /\ \A i, j \in 1..Len(rows) :
              i < j => \/ rows[i].time < rows[j].time
                       \/ rows[i].time = rows[j].time /\ KeysLess(rows[i].keys, rows[j].keys)

\* C19 (as stated): for every metric, grouping option and time unit the
\* trend query returns one row per time bucket and group key with selected
\* records, with the sums of quantity per thousand and amount per million,
\* ordered by time bucket, then group key.
C19_OneRowPerBucketAndGroup ==
    IsTrendCall => (TrendResult.status = "ok" /\ TrendRowsAsSpecified)

\* C19, the failing case: grouping by part on a loaded table that has no
\* part column; the query has raised
C19_GroupingByAbsentColumnRaises ==
    /\ IsTrendCall
    /\ ~HasCol(TrendDf, col_pateu)
    /\ HasCol(TrendDf, col_songjanggeumaek) /\ HasCol(TrendDf, col_songjangsuryang)
    /\ call.args[4] = "pateubyeol"
    /\ TrendResult.status = "error"

(* ------------------------------------------------------------------ *)
(* Filter categories without a column                                  *)
(* ------------------------------------------------------------------ *)
\* the column a filter category takes its options from
CategoryColumn(k) ==
    IF k = "pl" THEN col_peulraenteu
    ELSE IF k = "gr" THEN col_gumaegeurup
    ELSE IF k = "sp" THEN col_eopchepyosi
    ELSE IF k = "pt" THEN col_pateu
    ELSE IF k = "ct" THEN col_kategori
    ELSE col_kpi

\* the columns a clause of the category would name
ClauseColumns(k) ==
    IF k = "sp" THEN {col_gonggeupeopchekodeu, col_gonggeupeopchemyeong}
    ELSE {CategoryColumn(k)}

\* the multiselect clauses of the run
ListClauses == {i \in 1..Len(run.clauses) : run.clauses[i].kind \in {"in_num", "in_str"}}

\* C20: a filter category whose column the loaded table lacks has no clause
\* in the predicate, whatever the session holds as its stored selection; no
\* multiselect clause names a column the table lacks, and a run that ends with
\* an error in the sidebar does so for a category that has options (or for
\* want of any year-month).
C20_AbsentCategoryOmitted ==
    /\ "where" \in run.executed =>
           /\ \A k \in MsKeys :
                  ~HasCol(TheDf, CategoryColumn(k)) =>
                      \A i \in ListClauses : run.clauses[i].col \notin ClauseColumns(k)
           /\ \A i \in ListClauses : HasCol(TheDf, run.clauses[i].col)
    /\ (run.status = "error" /\ "filters" \in run.executed /\ "where" \notin run.executed) =>
           \/ run.yms_all = <<>>
           \/ \E k \in MsKeys : /\ HasCol(TheDf, CategoryColumn(k))
                                /\ ss_ms[k] # <<>>
                                /\ ~(ss_ms[k][1] \subseteq run.opts[k])

\* C20, its case: the session still holds a plant selection of an earlier
\* file, the table now loaded has no plant (and no part) column, and the run
\* has built its predicate and gone through the trend query
C20_StalePlantSelectionIgnored ==
    /\ "trend" \in run.executed
    /\ run.status # "error"
    /\ ~HasCol(TheDf, col_peulraenteu) /\ ~HasCol(TheDf, col_pateu)
    /\ ss_ms["pl"] # <<>> /\ ss_ms["pl"][1] # {}
    /\ \A i \in ListClauses : run.clauses[i].col # col_peulraenteu

(* ------------------------------------------------------------------ *)
(* The page below the trend query                                      *)
(* ------------------------------------------------------------------ *)
\* the trend query of the run has come back without a row
TrendCameBackEmpty == "no_data" \in run.executed

IsAcmeCall ==
    /\ call.op = "sql_query"
    /\ call.args[1] = load_csv(AcmeFile).df
    /\ call.args[2] = BuildClauses(call.args[1], Options(call.args[1]), Options(call.args[1]),
                                   yearmonths_all(call.args[1]), <<>>, <<>>)

\* C22: the one-line file (45292, 1000000, 500, Acme) loads to the date
\* 2024-01-01, the year 2024, amount 1000000, quantity 500 and the supplier
\* display Acme; with the default filters the yearly query returns, for
\* every metric choice and without grouping, one row for 2024 whose quantity
\* is 500 / 1000 = 0.5 and whose amount is 1000000 / 1000000 = 1.
C22_OneLineEndToEnd ==
    IsAcmeCall =>
        LET df == call.args[1]
            rows == call.res[1].rows
        IN /\ load_csv(AcmeFile).status = "ok"
           /\ NRows(df) = 1
           /\ Cell(df, 1, col_magamwol).t = "date"
           /\ SerialToCivil(Cell(df, 1, col_magamwol).n) = [y |-> 2024, m |-> 1, d |-> 1]
           /\ Cell(df, 1, col_yeondo) = Num(2024)
           /\ Cell(df, 1, col_songjanggeumaek) = Num(1000000)
           /\ Cell(df, 1, col_songjangsuryang) = Num(500)
           /\ Cell(df, 1, col_eopchepyosi) = Str(<<"A", "c", "m", "e">>)
           /\ (call.args[5] = "yeondobyeol" /\ call.args[4] = "jeonche") =>
                  /\ call.res[1].status = "ok"
                  /\ Len(rows) = 1
                  /\ rows[1].time = 2024
                  /\ \A k \in 1..Len(rows[1].metrics) :
                         LET x == rows[1].metrics[k]
                             c == metric_col(call.args[3])[k].col
                         IN IF c = col_songjangsuryang
                            THEN x.sum = 500 /\ x.per = 1000 /\ 2 * x.sum = x.per
                            ELSE x.sum = 1000000 /\ x.per = 1000000
                  /\ Len(rows[1].metrics) = Len(metric_col(call.args[3]))

\* C22, its case: the yearly query with both metrics has been made on the
\* loaded file and has come back with one row
C22_YearlyQueryOnOneLine ==
    /\ IsAcmeCall
    /\ call.args[3] = "songjanggeumaek+songjangsuryang"
    /\ call.args[4] = "jeonche"
    /\ call.args[5] = "yeondobyeol"
    /\ call.res[1].status = "ok"
    /\ Len(call.res[1].rows) = 1
    /\ Len(call.args[2]) = 2

(* ------------------------------------------------------------------ *)
(* The material search and the page's queries                          *)
(* ------------------------------------------------------------------ *)
IsPageCall == call.op = "page_queries"
PageDf == call.args[1]

\* the material clause of the page's two search globals
PageSearch == MaterialClause(call.args[3], call.args[4])

\* a material search is active
SearchActive == PageSearch # <<>>

\* record r satisfies the material search
PassesSearch(r) == EvalClause(PageDf, r, PageSearch[1])

\* C23 (as stated): while a material search is active every query of the
\* page -- trend, raw data, supplier summary -- returns (sums) only records
\* that satisfy the material search.
C23_SearchFiltersEveryQuery ==
    (IsPageCall /\ SearchActive) =>
        \A q \in {call.res[1].time_df, call.res[1].raw_df, call.res[1].sup_df} :
            \A r \in q.rows : PassesSearch(r)

\* C23, the failing case: the name search "a" is active, trend and summary
\* leave out the record whose material name has no a, the raw-data query
\* returns it
C23_RawDataIgnoresSearch ==
    /\ IsPageCall
    /\ call.args[3] = <<"a">> /\ call.args[4] = <<>>
    /\ call.res[1].raw_df.status = "ok"
    /\ \E r \in call.res[1].raw_df.rows :
          /\ ~PassesSearch(r)
          /\ r \notin call.res[1].time_df.rows
          /\ r \notin call.res[1].sup_df.rows
    /\ call.res[1].time_df.status = "ok" /\ call.res[1].sup_df.status = "ok"

(* ------------------------------------------------------------------ *)
(* Properties of the search reset and of the filter reset              *)
(* ------------------------------------------------------------------ *)
\* the run started by the st.rerun() of the search reset button
AfterSearchReset == run.trigger = "clear_material_search"

NoSearchTerms == ss_name_search = << <<>> >> /\ ss_code_search = << <<>> >>

\* C24: after the material-search reset button is clicked, the run that
\* follows ends completed with both global search terms empty: the keyed text
\* areas do not write their old text back.
C24_ResetEmptiesSearch ==
    [][(AfterSearchReset /\ pc = "search")
         => (pc' = "idle" /\ run'.status = "done" /\ NoSearchTerms')]_vars

\* the run that follows the reset reaches the text areas, the name text area
\* still holds the text typed before the reset, and the global is empty
C24_TextAreaKeepsOldText ==
    /\ AfterSearchReset
    /\ pc = "search"
    /\ NoSearchTerms
    /\ w_name = << <<"a">> >>

\* the run started by the st.rerun() of the reset-all-filters button
AfterFilterReset == run.trigger = "clear_all_filters"

\* the reset-all-filters button acts in this step
FilterResetStep == pc = "sidebar" /\ clicked = "clear_all_filters" /\ AfterFilterReset'

\* C25: the reset-all-filters button deletes the multiselect selections and
\* nothing else: the search terms, the loaded table, the stored file name, the
\* period and the chart selector show after it what they showed before, and in
\* the run that follows every multiselect selection is its full option list.
C25_FilterResetTouchesSelectionsOnly ==
    /\ [][FilterResetStep
           => /\ ss_ms' = [k \in MsKeys |-> <<>>]
              /\ UNCHANGED <<ss_name_search, ss_code_search, ss_df, ss_file_name, ss_period>>
              /\ TimeUnitValue' = TimeUnitValue]_vars
    /\ []((AfterFilterReset /\ pc = "where") => run.sel = run.opts)

\* the reset button was clicked while the aggregation unit was set to yearly:
\* the run that follows shows the monthly default
C25_ResetClickedWithYearlyUnit ==
    /\ pc = "sidebar"
    /\ clicked = "clear_all_filters"
    /\ ss_chart = <<"yeondobyeol">>
    /\ ~(yearmonths_all(TheDf) = <<>>)

(* ------------------------------------------------------------------ *)
(* Properties of the search update                                     *)
(* ------------------------------------------------------------------ *)
\* the run stands at the search update and a text area differs from its global
TextAreaDiffers ==
    /\ pc = "search"
    /\ \/ TextAreaValue(w_name, ss_name_search[1]) # ss_name_search[1]
       \/ TextAreaValue(w_code, ss_code_search[1]) # ss_code_search[1]

\* the run is over, completed or ended by a raising query; each global holds
\* what its text area holds, and the predicate of the run was built from
\* these texts
EndedInSync ==
    /\ pc = "idle"
    /\ run.status \in {"done", "error"}
    /\ w_name # <<>> /\ w_name = ss_name_search
    /\ w_code # <<>> /\ w_code = ss_code_search
    /\ run.clauses = BuildClauses(TheDf, run.opts, run.sel, run.yms, w_name[1], w_code[1])

\* C26: whenever a text area differs from its global at the search update,
\* the chain of reruns comes to an end, and the run it ends with has each
\* global equal to its text area and a predicate built from the typed search.
C26_SearchUpdateTerminatesInSync == TextAreaDiffers ~> EndedInSync

\* both text areas differed from their globals, and the chain of reruns has
\* ended in a completed run with both typed texts in the globals
C26_RerunEndedWithTypedSearch ==
    /\ EndedInSync
    /\ run.status = "done"
    /\ run.trigger = "st.rerun"
    /\ w_name = << <<"a">> >>
    /\ w_code = << <<"1", "1">> >>

(* ------------------------------------------------------------------ *)
(* Properties of the share step                                        *)
(* ------------------------------------------------------------------ *)
IsPctCall == call.op = "percentage_step"
PctDf == call.args[1]
PctResult == call.res[1]

\* share mode, a grouping other than 'all', and the combined metric
CombinedShareCall ==
    /\ IsPctCall
    /\ call.args[2] = "bijung(%)"
    /\ call.args[3] # "jeonche"
    /\ call.args[4] = "songjanggeumaek+songjangsuryang"

\* the result has the share column of value_col on every row, each value
\* taken against the total of the row's time point
SharesOf(value_col) ==
    /\ \E i \in 1..Len(PctResult.df.cols) : PctResult.df.cols[i] = ShareCol(value_col)
    /\ Len(PctResult.df.rows) = Len(PctDf.rows)
    /\ \A r \in 1..Len(PctDf.rows) :
          LET total == ColumnSum(PctDf.rows, Len(PctDf.rows), pct_time,
                                 PctDf.rows[r][pct_time], value_col)
          IN /\ ShareCol(value_col) \in DOMAIN PctResult.df.rows[r]
             /\ PctResult.df.rows[r][ShareCol(value_col)]
                  = IF total > 0 THEN RoundedPercent(PctDf.rows[r][value_col], total) ELSE 0

\* C27: in share mode with the combined metric and a grouping other than
\* 'all', the two share computations (amount, then quantity) complete without
\* an error, and the result has both share columns on every row, each against
\* the total of the row's time point.
C27_CombinedSharesComputed ==
    CombinedShareCall
      => PctResult.status = "ok" /\ SharesOf(pct_amount) /\ SharesOf(pct_quantity)

\* the combined share step on a two-row result: the second computation raised
\* on row['total'], the frame holding total_x and total_y
C27_SecondShareRaisesKeyError ==
    /\ CombinedShareCall
    /\ Len(PctDf.rows) = 2
    /\ PctResult.status = "KeyError"
    /\ \E i \in 1..Len(PctResult.df.cols) : PctResult.df.cols[i] = "total_y"

(* ------------------------------------------------------------------ *)
(* Properties of the default predicate                                 *)
(* ------------------------------------------------------------------ *)
\* the predicate of the run is built, every multiselect holds all of its
\* options and no search term is set
DefaultState ==
    /\ "where" \in run.executed
    /\ run.sel = run.opts
    /\ NoSearchTerms

\* the records of the table whose closing month lies in the selected range
InSelectedRange(df, yms) ==
    {r \in 1..NRows(df) :
        /\ Cell(df, r, col_magamwol).t = "date"
        /\ YmOf(Cell(df, r, col_magamwol)) \in Range(yms)}

\* C28: in the default state the predicate matches every loaded record whose
\* closing month lies in the selected range.
C28_DefaultMatchesWholeRange ==
    DefaultState => MatchingRows(TheDf, run.clauses) = InSelectedRange(TheDf, run.yms)

\* a run in the default state whose predicate leaves out a record of the
\* selected range
C28_DefaultDropsRecord ==
    /\ DefaultState
    /\ pc = "idle"
    /\ run.status = "done"
    /\ \E r \in InSelectedRange(TheDf, run.yms) : r \notin MatchingRows(TheDf, run.clauses)

(* ------------------------------------------------------------------ *)
(* Properties of the stored selections                                 *)
(* ------------------------------------------------------------------ *)
\* the stored selection of multiselect k is among the options of the table
WithinOptions(k) == ss_ms[k] = <<>> \/ ss_ms[k][1] \subseteq Options(TheDf)[k]

\* C29: in every run, when the sidebar builds the multiselects, each stored
\* selection is a subset of the options of the current table; also in the
\* first run after another file has replaced the table.
C29_SelectionsWithinOptions ==
    pc = "sidebar" => \A k \in MsKeys : WithinOptions(k)

\* the run has just loaded another file, and a selection stored for the
\* table before holds a value that is no option of the new table
C29_StaleSelectionAfterReplace ==
    /\ pc = "sidebar"
    /\ run.loaded
    /\ \E k \in MsKeys : Options(TheDf)[k] # {} /\ ~WithinOptions(k)

(* ------------------------------------------------------------------ *)
(* Properties of the supplier clause                                   *)
(* ------------------------------------------------------------------ *)
\* the records the supplier clause of the run matches
SupplierMatches ==
    LET cls == SupplierClause(TheDf, run.opts["sp"], run.sel["sp"])
    IN {r \in 1..NRows(TheDf) : \A i \in 1..Len(cls) : EvalClause(TheDf, r, cls[i])}

\* the records whose display string is one of the selected ones
DisplayedIn(D) ==
    {r \in 1..NRows(TheDf) :
        /\ Cell(TheDf, r, col_eopchepyosi).t = "str"
        /\ Cell(TheDf, r, col_eopchepyosi).s \in D}

\* the predicate of the run is built on a table with a supplier-code column
CodeColumnRun ==
    /\ "where" \in run.executed
    /\ HasCol(TheDf, col_gonggeupeopchekodeu)
    /\ run.opts["sp"] # {}

\* C30: on a table with a supplier-code column, the supplier clause built for
\* a selection D of display strings matches exactly the records whose display
\* string is in D, suppliers without a code included.
C30_SupplierClauseMatchesSelection ==
    CodeColumnRun => SupplierMatches = DisplayedIn(run.sel["sp"])

\* the supplier without a code is the only one selected: its name is used as
\* a code, and the clause matches no record although one displays that name
C30_CodelessSupplierNotMatched ==
    /\ CodeColumnRun
    /\ run.sel["sp"] = {<<"E", "f">>}
    /\ DisplayedIn(run.sel["sp"]) # {}
    /\ SupplierMatches = {}

====
